---- MODULE Spec2Model ----
(***************************************************************************)
(* Model of urbit_dojo.py: the input encoder (_send_character,             *)
(* _create_belts_from_chars, _create_belts_from_string), the terminal      *)
(* buffer and blit decoder, and the capture operations of UrbitDojo.       *)
(*                                                                         *)
(* A Python str is modelled as the sequence of its code points, so a       *)
(* one-character symbol is a one-element sequence and ord() is defined     *)
(* only on those.                                                          *)
(***************************************************************************)
EXTENDS Integers, Sequences, FiniteSets, TLC

VARIABLES
    encIn, encOut, encMode,   \* encoder harness: input, output, which encoder ran
    cookies, channel_id,      \* session: None / empty dict / non-empty; None / set
    op, pc,                   \* the running operation and the caller's position in it
    chars, i,                 \* the operation's input and its loop index (0-based)
    chars_accepted, chars_sent,
    events, stop_event,       \* the operation's event buffer and cancellation flag
    lpc, lline,               \* capture_events thread: position and the line it holds
    nlines,                   \* lines the stream has delivered
    sent,                     \* keystrokes posted: [index, belt]
    result,                   \* the value returned
    bell_at,                  \* history: index of the probe step that saw a bell, or -1
    send_failed,              \* history: _send_character raised
    terminal, seen,           \* send_until_bell's decode pass: its TerminalBuffer and
                              \* the number of events its loop has taken from the buffer
    late,                     \* history: events delivered during the post-sequence wait
    arrived,                  \* history: events the stream delivered before stop_event
                              \* was set
    term, tprev, tcall, nops, \* terminal harness: the buffer, the buffer before the
                              \* last call, the last call and the number of calls
    now,                      \* time.time()
    slog_queue,               \* self.slog_queue
    nslog,                    \* lines the slog stream has delivered
    qpc, nqueries,            \* correlator query: position, queries completed
    start_time, end_time,     \* the window the running/last query was called with
    correlated_messages, temp_messages,
    examined,                 \* history: what the running/last query did with each message
    at_begin,                 \* history: ids in the mailbox when the query began
    msglog,                   \* history: per message, its timestamp and fate
    slog_stop_event,          \* self.slog_stop_event
    slog_threads,             \* the capture_slog threads started so far, the last one
                              \* being self.slog_thread
    dpc                       \* disconnect(): the caller's position in it

encVars == <<encIn, encOut, encMode>>

sessionVars == <<cookies, channel_id>>

opVars == <<op, pc, chars, i, chars_accepted, chars_sent, stop_event, sent, result,
            bell_at, send_failed, terminal, seen>>

listenerVars == <<events, lpc, lline, nlines, late, arrived>>

termVars == <<term, tprev, tcall, nops>>

slogVars == <<now, slog_queue, nslog, qpc, nqueries, start_time,
              end_time, correlated_messages, temp_messages, examined,
              at_begin, msglog>>

threadVars == <<slog_stop_event, slog_threads, dpc>>

vars == <<encIn, encOut, encMode, cookies, channel_id, op, pc, chars, i,
          chars_accepted, chars_sent, events, stop_event, lpc, lline, nlines,
          sent, result, bell_at, send_failed, terminal, seen, late, arrived,
          term, tprev, tcall, nops,
          now, slog_queue, nslog, qpc, nqueries, start_time,
          end_time, correlated_messages, temp_messages, examined,
          at_begin, msglog, slog_stop_event, slog_threads, dpc>>

(* ---------------------------- bounds ----------------------------------- *)

\* longest symbol sequence handed to the encoders
MaxEncLen == 3

\* longest symbol sequence handed to a capture operation
MaxChars == 2

\* lines the event stream delivers during one operation
MaxLines == 2

\* calls made on one TerminalBuffer
MaxTermOps == 4

\* largest value of the clock, and of a window bound
MaxClock == 2

\* lines the slog stream delivers
MaxSlog == 3

\* calls of connect() that start a slog listener
MaxSessions == 2

\* slog queries made over the sessions of one client
MaxSessionQueries == 1

\* lines the slog streams deliver over the sessions of one client
MaxSessionLines == 2

\* calls of _get_correlated_slog_messages
MaxQueries == 3

\* wire records decoded into one TerminalBuffer
MaxDecodes == 3

(* --------------------------- symbols ----------------------------------- *)

ARROW_UP == <<65, 82, 82, 79, 87, 95, 85, 80>>

ARROW_DOWN == <<65, 82, 82, 79, 87, 95, 68, 79, 87, 78>>

ARROW_LEFT == <<65, 82, 82, 79, 87, 95, 76, 69, 70, 84>>

ARROW_RIGHT == <<65, 82, 82, 79, 87, 95, 82, 73, 71, 72, 84>>

\* a string that is neither one character nor an arrow name: ord() raises
NotAChar == <<120, 120>>

\* the symbols the encoders are exercised on: NUL, ctrl-D, backspace, tab,
\* line feed, carriage return, escape, space, 'a', 'd', '~', delete, a code
\* point above 126, the four arrow names and a multi-character string
EncSymbols ==
    { <<0>>, <<4>>, <<8>>, <<9>>, <<10>>, <<13>>, <<27>>, <<32>>, <<97>>,
      <<100>>, <<126>>, <<127>>, <<200>>,
      ARROW_UP, ARROW_DOWN, ARROW_LEFT, ARROW_RIGHT, NotAChar }

SeqsUpTo(S, n) == UNION { [1..k -> S] : k \in 0..n }

\* ord(char) raises TypeError unless char has exactly one character
OrdRaises(char) == Len(char) # 1

Ord(char) == char[1]

\* list(strap): the one-character strings of a str
ListOf(s) == [k \in 1..Len(s) |-> <<s[k]>>]

(* ---------------------------- belts ------------------------------------ *)

Txt(run) == [txt |-> run]

Ret == [ret |-> "None"]

Bac == [bac |-> "None"]

Ctl(key) == [mod |-> [mod |-> "ctl", key |-> key]]

Aro(d) == [aro |-> d]

IsArrow(char) == char \in {ARROW_UP, ARROW_DOWN, ARROW_LEFT, ARROW_RIGHT}

ArrowBelt(char) ==
    IF char = ARROW_UP THEN Aro("u")
    ELSE IF char = ARROW_DOWN THEN Aro("d")
    ELSE IF char = ARROW_LEFT THEN Aro("l")
    ELSE Aro("r")

(* ----------------------- _send_character ------------------------------- *)

\* _send_character without the ctrl-D guard
SendCharacterBelt_NoGuard(char) ==
    IF IsArrow(char) THEN <<ArrowBelt(char)>>
    ELSE LET c == Ord(char) IN
         IF c = 9 THEN <<Ctl(<<105>>)>>
         ELSE IF c = 13 THEN <<Ret>>
         ELSE IF c = 8 \/ c = 127 THEN <<Bac>>
         ELSE IF 1 <= c /\ c <= 26 THEN <<Ctl(<<96 + c>>)>>
         ELSE IF 32 <= c /\ c <= 126 THEN <<Txt(<<char>>)>>
         ELSE <<>>

\* The belt _send_character posts for char: a sequence of one belt, or the
\* empty sequence when it returns without posting.  Defined where ord() does
\* not raise.
SendCharacterBelt(char) ==
    IF IsArrow(char) THEN <<ArrowBelt(char)>>
    ELSE LET c == Ord(char) IN
         IF c = 9 THEN <<Ctl(<<105>>)>>
         ELSE IF c = 13 THEN <<Ret>>
         ELSE IF c = 8 \/ c = 127 THEN <<Bac>>
         ELSE IF 1 <= c /\ c <= 26
              THEN (IF <<96 + c>> # <<100>> THEN <<Ctl(<<96 + c>>)>> ELSE <<>>)
         ELSE IF 32 <= c /\ c <= 126 THEN <<Txt(<<char>>)>>
         ELSE <<>>

\* _send_character raises before posting (ord of a non-character)
SendCharacterRaises(char) == ~IsArrow(char) /\ OrdRaises(char)

\* _send_character applied symbol by symbol, as the callers' loops do: the
\* belts posted up to the first symbol on which it raises
RECURSIVE UnbatchedFrom(_, _, _)
UnbatchedFrom(syms, k, belts) ==
    IF k > Len(syms) THEN [belts |-> belts, raised |-> FALSE]
    ELSE IF SendCharacterRaises(syms[k]) THEN [belts |-> belts, raised |-> TRUE]
    ELSE UnbatchedFrom(syms, k + 1, belts \o SendCharacterBelt(syms[k]))

Unbatched(syms) == UnbatchedFrom(syms, 1, <<>>)

(* -------------------- _create_belts_from_chars ------------------------- *)

\* flush the accumulated strap as one txt belt
Flush(belts, strap) ==
    IF strap # <<>> THEN Append(belts, Txt(ListOf(strap))) ELSE belts

\* the printable test of the batching encoders
Accumulates(c) == c >= 32 /\ c # 127

\* the "special characters" branch of _create_belts_from_chars
CharsSpecial(c) ==
    IF c = 8 \/ c = 127 THEN <<Bac>>
    ELSE IF c = 13 THEN <<Ret>>
    ELSE IF c = 9 THEN <<Ctl(<<105>>)>>
    ELSE IF 1 <= c /\ c <= 26
         THEN (IF <<96 + c>> # <<100>> THEN <<Ctl(<<96 + c>>)>> ELSE <<>>)
    ELSE <<>>

RECURSIVE BeltsFromCharsLoop(_, _, _, _)
BeltsFromCharsLoop(syms, k, belts, strap) ==
    IF k > Len(syms) THEN [belts |-> Flush(belts, strap), raised |-> FALSE]
    ELSE LET char == syms[k] IN
         IF IsArrow(char)
         THEN BeltsFromCharsLoop(syms, k + 1,
                                 Append(Flush(belts, strap), ArrowBelt(char)), <<>>)
         ELSE IF OrdRaises(char) THEN [belts |-> <<>>, raised |-> TRUE]
         ELSE LET c == Ord(char) IN
              IF Accumulates(c)
              THEN BeltsFromCharsLoop(syms, k + 1, belts, strap \o char)
              ELSE BeltsFromCharsLoop(syms, k + 1,
                                      Flush(belts, strap) \o CharsSpecial(c), <<>>)

CreateBeltsFromChars(syms) == BeltsFromCharsLoop(syms, 1, <<>>, <<>>)

(* -------------------- _create_belts_from_string ------------------------ *)

\* the "special characters" branch of _create_belts_from_string
StringSpecial(c) ==
    IF c = 0 THEN <<>>
    ELSE IF c = 8 \/ c = 127 THEN <<Bac>>
    ELSE IF c = 13 THEN <<Ret>>
    ELSE IF c = 9 THEN <<Ctl(<<105>>)>>
    ELSE IF 1 <= c /\ c <= 26
         THEN (IF <<96 + c>> # <<100>> THEN <<Ctl(<<96 + c>>)>> ELSE <<>>)
    ELSE <<>>

RECURSIVE BeltsFromStringLoop(_, _, _, _)
BeltsFromStringLoop(text, k, belts, strap) ==
    IF k > Len(text) THEN Flush(belts, strap)
    ELSE LET c == text[k] IN
         IF Accumulates(c)
         THEN BeltsFromStringLoop(text, k + 1, belts, strap \o <<c>>)
         ELSE BeltsFromStringLoop(text, k + 1,
                                  Flush(belts, strap) \o StringSpecial(c), <<>>)

\* text is a str; iterating it yields its characters one by one
CreateBeltsFromString(text) ==
    [belts |-> BeltsFromStringLoop(text, 1, <<>>, <<>>), raised |-> FALSE]

\* ''.join(chars)
RECURSIVE Join(_)
Join(strs) == IF strs = <<>> THEN <<>> ELSE Head(strs) \o Join(Tail(strs))

(* ------------------------ TerminalBuffer ------------------------------- *)

\* width and height of the terminals the decoder creates (the program's
\* defaults, scaled down)
TermWidth == 3

TermHeight == 2

BlankRow(width) == [k \in 1..width |-> 32]

\* TerminalBuffer.__init__
NewTerminal(width, height) ==
    [width |-> width, height |-> height, cursor_x |-> 0, cursor_y |-> 0,
     screen |-> [r \in 1..height |-> BlankRow(width)],
     bell_occurred |-> FALSE]

\* write_text advancing the cursor for a dropped character too
WriteChar_AlwaysAdvance(t, char) ==
    IF t.cursor_x < t.width /\ t.cursor_y < t.height
    THEN [t EXCEPT !.screen[t.cursor_y + 1][t.cursor_x + 1] = char,
                   !.cursor_x = @ + 1]
    ELSE [t EXCEPT !.cursor_x = @ + 1]

\* write_text wrapping to the next row at the right edge
WriteChar_Wrap(t, char) ==
    IF t.cursor_x < t.width /\ t.cursor_y < t.height
    THEN [t EXCEPT !.screen[t.cursor_y + 1][t.cursor_x + 1] = char,
                   !.cursor_x = @ + 1]
    ELSE IF t.cursor_y + 1 < t.height
    THEN [t EXCEPT !.screen[t.cursor_y + 2][1] = char,
                   !.cursor_x = 1, !.cursor_y = @ + 1]
    ELSE t

\* one iteration of write_text's loop
WriteChar(t, char) ==
    IF t.cursor_x < t.width /\ t.cursor_y < t.height
    THEN [t EXCEPT !.screen[t.cursor_y + 1][t.cursor_x + 1] = char,
                   !.cursor_x = @ + 1]
    ELSE t

RECURSIVE write_text(_, _)
write_text(t, text) ==
    IF text = <<>> THEN t ELSE write_text(WriteChar(t, Head(text)), Tail(text))

\* scroll_up as a real terminal scrolls: the top row is removed
scroll_up_Shift(t) ==
    [t EXCEPT !.screen = Append(Tail(@), BlankRow(t.width))]

\* scroll_up appending the row without "self.height += 1"
scroll_up_NoHeight(t) ==
    [t EXCEPT !.screen = Append(@, BlankRow(t.width))]

scroll_up(t) ==
    [t EXCEPT !.screen = Append(@, BlankRow(t.width)), !.height = @ + 1]

\* newline clamping at the bottom row without growing
newline_NoGrow(t) ==
    LET moved == [t EXCEPT !.cursor_y = @ + 1, !.cursor_x = 0] IN
    IF moved.cursor_y >= moved.height
    THEN [moved EXCEPT !.cursor_y = moved.height - 1]
    ELSE moved

newline(t) ==
    LET moved == [t EXCEPT !.cursor_y = @ + 1, !.cursor_x = 0] IN
    IF moved.cursor_y >= moved.height
    THEN LET grown == scroll_up(moved) IN [grown EXCEPT !.cursor_y = grown.height - 1]
    ELSE moved

Min(a, b) == IF a < b THEN a ELSE b

Max(a, b) == IF a > b THEN a ELSE b

set_cursor_col(t, col) == [t EXCEPT !.cursor_x = Min(Max(0, col), t.width - 1)]

\* set_cursor_pos clamping y against the width
set_cursor_pos_ClampYByWidth(t, x, y) ==
    [t EXCEPT !.cursor_x = Min(Max(0, x), t.width - 1),
              !.cursor_y = Min(Max(0, y), t.width - 1)]

set_cursor_pos(t, x, y) ==
    [t EXCEPT !.cursor_x = Min(Max(0, x), t.width - 1),
              !.cursor_y = Min(Max(0, y), t.height - 1)]

\* clear_line wiping the whole row
clear_line_Whole(t) ==
    IF t.cursor_y < t.height
    THEN [t EXCEPT !.screen[t.cursor_y + 1] = BlankRow(t.width)]
    ELSE t

clear_line(t) ==
    IF t.cursor_y < t.height
    THEN [t EXCEPT !.screen[t.cursor_y + 1] =
                      [k \in 1..t.width |-> IF k - 1 >= t.cursor_x THEN 32 ELSE @[k]]]
    ELSE t

\* clear_screen going back to the default number of rows
clear_screen_Reset(t) ==
    [t EXCEPT !.screen = [r \in 1..TermHeight |-> BlankRow(t.width)],
              !.height = TermHeight,
              !.cursor_x = 0, !.cursor_y = 0]

clear_screen(t) ==
    [t EXCEPT !.screen = [r \in 1..t.height |-> BlankRow(t.width)],
              !.cursor_x = 0, !.cursor_y = 0]

\* record_bell flipping the flag
record_bell_Toggle(t) == [t EXCEPT !.bell_occurred = ~@]

record_bell(t) == [t EXCEPT !.bell_occurred = TRUE]

has_bell(t) == t.bell_occurred

\* the characters str.rstrip() removes
IsSpace(c) == c \in {9, 10, 11, 12, 13, 28, 29, 30, 31, 32, 133, 160}

RECURSIVE RStrip(_)
RStrip(line) ==
    IF line # <<>> /\ IsSpace(line[Len(line)])
    THEN RStrip(SubSeq(line, 1, Len(line) - 1))
    ELSE line

\* the first loop of get_visible_text: rows stripped, leading blank rows left out
RECURSIVE KeptLines(_, _, _)
KeptLines(screen, r, lines) ==
    IF r > Len(screen) THEN lines
    ELSE LET stripped == RStrip(screen[r]) IN
         KeptLines(screen, r + 1,
                   IF stripped # <<>> \/ lines # <<>> THEN Append(lines, stripped) ELSE lines)

\* the second loop: pop trailing empty lines
RECURSIVE PopEmpty(_)
PopEmpty(lines) ==
    IF lines # <<>> /\ lines[Len(lines)] = <<>>
    THEN PopEmpty(SubSeq(lines, 1, Len(lines) - 1))
    ELSE lines

\* '\n'.join(lines)
RECURSIVE JoinLines(_)
JoinLines(lines) ==
    IF lines = <<>> THEN <<>>
    ELSE IF Len(lines) = 1 THEN lines[1]
    ELSE lines[1] \o <<10>> \o JoinLines(Tail(lines))

\* get_visible_text keeping the blank rows above the first text
get_visible_text_KeepLeading(t) ==
    JoinLines(PopEmpty([r \in 1..Len(t.screen) |-> RStrip(t.screen[r])]))

\* get_visible_text without its second loop
get_visible_text_NoPop(t) == JoinLines(KeptLines(t.screen, 1, <<>>))

get_visible_text(t) == JoinLines(PopEmpty(KeptLines(t.screen, 1, <<>>)))

\* get_visible_text stripping the rows of self.screen in place
GetVisibleTextLeaves_Stripped(t) ==
    [t EXCEPT !.screen = [r \in 1..Len(t.screen) |-> RStrip(t.screen[r])]]

\* the buffer after get_visible_text: the method assigns to locals only
GetVisibleTextLeaves(t) == t

\* the buffer after has_bell
HasBellLeaves(t) == t

(* ------------------------- _process_blit ------------------------------- *)

\* A JSON object is a record over its keys.  A JSON integer that the code
\* tells from an object with isinstance is written [int |-> n].
HasKey(d, key) == key \in DOMAIN d

IsInt(v) == HasKey(v, "int")

\* The decoder works on [t |-> terminal, exc |-> an exception was raised];
\* once exc is set the rest of the pass is not executed.
RECURSIVE ProcessBlit(_, _)
RECURSIVE ProcessBlitList(_, _)
RECURSIVE WriteFragments(_, _)

\* the sub-commands of a mor record taken last to first
SubBlits_Reversed(blit) ==
    [k \in 1..Len(blit.mor) |-> blit.mor[Len(blit.mor) + 1 - k]]

\* "for sub_blit in blit['mor']"
SubBlits(blit) == blit.mor

\* the text of a fragment cut to its first item
FragmentText_FirstOnly(styled_text) == Join(<<Head(styled_text.text)>>)

\* "text = ''.join(styled_text['text'])"
FragmentText(styled_text) == Join(styled_text.text)

\* a record with no known key treated as an error
Ignored_Raises(d) == [d EXCEPT !.exc = TRUE]

\* no branch of the if-chain matches: nothing is done
Ignored(d) == d

\* the klr branch: the text of each fragment that has one
WriteFragments(frags, d) ==
    IF frags = <<>> THEN d
    ELSE WriteFragments(Tail(frags),
                        IF HasKey(Head(frags), "text")
                        THEN [d EXCEPT !.t = write_text(@, FragmentText(Head(frags)))]
                        ELSE d)

ProcessBlit(blit, d) ==
    IF d.exc THEN d
    ELSE IF HasKey(blit, "mor") THEN ProcessBlitList(SubBlits(blit), d)
    ELSE IF HasKey(blit, "put") THEN [d EXCEPT !.t = write_text(@, Join(blit.put))]
    ELSE IF HasKey(blit, "klr") THEN WriteFragments(blit.klr, d)
    ELSE IF HasKey(blit, "nel") THEN [d EXCEPT !.t = newline(@)]
    ELSE IF HasKey(blit, "hop")
         THEN IF IsInt(blit.hop) THEN [d EXCEPT !.t = set_cursor_col(@, blit.hop.int)]
              ELSE IF HasKey(blit.hop, "x") /\ HasKey(blit.hop, "y")
                   THEN [d EXCEPT !.t = set_cursor_pos(@, blit.hop.x, blit.hop.y)]
                   ELSE [d EXCEPT !.exc = TRUE]
    ELSE IF HasKey(blit, "wyp") THEN [d EXCEPT !.t = clear_line(@)]
    ELSE IF HasKey(blit, "clr") THEN [d EXCEPT !.t = clear_screen(@)]
    ELSE IF HasKey(blit, "bel") THEN [d EXCEPT !.t = record_bell(@)]
    ELSE Ignored(d)

ProcessBlitList(blits, d) ==
    IF blits = <<>> \/ d.exc THEN d
    ELSE ProcessBlitList(Tail(blits), ProcessBlit(Head(blits), d))

\* the body of the loop over the buffer: "if 'json' in event and 'mor' in
\* event['json']: for blit in event['json']['mor']: _process_blit(...)"
ProcessEvent(event, d) ==
    IF HasKey(event, "json") /\ HasKey(event.json, "mor")
    THEN ProcessBlitList(event.json.mor, d)
    ELSE d

\* "for event in events: ..." over a buffer nobody appends to
RECURSIVE ProcessEvents(_, _)
ProcessEvents(evs, d) ==
    IF evs = <<>> \/ d.exc THEN d
    ELSE ProcessEvents(Tail(evs), ProcessEvent(Head(evs), d))

\* a decode pass over the buffer through a fresh TerminalBuffer()
Replay(evs) ==
    ProcessEvents(evs, [t |-> NewTerminal(TermWidth, TermHeight), exc |-> FALSE])

(* ------------------------- initial state ------------------------------- *)

NoResult == [none |-> TRUE]

NoLine == [utf8 |-> TRUE, data |-> FALSE, parses |-> FALSE, value |-> [ok |-> "ok"]]

\* UrbitDojo.__init__: no session, no operation in progress
ClientInit ==
    /\ cookies = "None"
    /\ channel_id = "None"
    /\ op = "none"
    /\ pc = "idle"
    /\ chars = <<>>
    /\ i = 0
    /\ chars_accepted = 0
    /\ chars_sent = 0
    /\ events = <<>>
    /\ stop_event = FALSE
    /\ lpc = "none"
    /\ lline = NoLine
    /\ nlines = 0
    /\ sent = <<>>
    /\ result = NoResult
    /\ bell_at = -1
    /\ send_failed = FALSE
    /\ terminal = NewTerminal(TermWidth, TermHeight)
    /\ seen = 0
    /\ late = <<>>
    /\ arrived = <<>>

NoCall == [name |-> "none", text |-> <<>>, x |-> 0, y |-> 0]

\* a fresh TerminalBuffer and no call made on it yet
TermInit ==
    /\ term = NewTerminal(TermWidth, TermHeight)
    /\ tprev = NewTerminal(TermWidth, TermHeight)
    /\ tcall = NoCall
    /\ nops = 0

\* UrbitDojo.__init__: an empty slog_queue, no slog thread, the stop event
\* clear; no query has run
SlogInit ==
    /\ slog_stop_event = FALSE
    /\ slog_threads = <<>>
    /\ dpc = "idle"
    /\ now = 0
    /\ slog_queue = <<>>
    /\ nslog = 0
    /\ qpc = "idle"
    /\ nqueries = 0
    /\ start_time = 0
    /\ end_time = 0
    /\ correlated_messages = <<>>
    /\ temp_messages = <<>>
    /\ examined = <<>>
    /\ at_begin = {}
    /\ msglog = <<>>

(* ------------------- the encoder specification ------------------------- *)

NoOut == [belts |-> <<>>, raised |-> FALSE]

EncInit ==
    /\ encIn \in SeqsUpTo(EncSymbols, MaxEncLen)
    /\ encOut = NoOut
    /\ encMode = "none"
    /\ ClientInit
    /\ TermInit
    /\ SlogInit

\* the per-symbol loop over _send_character
EncodeUnbatched ==
    /\ encMode = "none"
    /\ encMode' = "unbatched"
    /\ encOut' = Unbatched(encIn)
    /\ UNCHANGED <<encIn, sessionVars, opVars, listenerVars>>
    /\ UNCHANGED <<termVars, slogVars, threadVars>>

\* _create_belts_from_chars(chars)
EncodeBatched ==
    /\ encMode = "none"
    /\ encMode' = "batched"
    /\ encOut' = CreateBeltsFromChars(encIn)
    /\ UNCHANGED <<encIn, sessionVars, opVars, listenerVars>>
    /\ UNCHANGED <<termVars, slogVars, threadVars>>

\* _create_belts_from_string(''.join(chars))
EncodeString ==
    /\ encMode = "none"
    /\ encMode' = "string"
    /\ encOut' = CreateBeltsFromString(Join(encIn))
    /\ UNCHANGED <<encIn, sessionVars, opVars, listenerVars>>
    /\ UNCHANGED <<termVars, slogVars, threadVars>>

EncNext == EncodeUnbatched \/ EncodeBatched \/ EncodeString

SpecEnc == EncInit /\ [][EncNext]_vars

(* ----------------- the TerminalBuffer specification -------------------- *)

\* texts written: "a", "a ", and one longer than the screen is wide
TermTexts == { <<97>>, <<97, 32>>, [k \in 1..(TermWidth + 1) |-> 98] }

\* cursor arguments: negative, inside, and beyond any width or height reached
TermInts == { -1, 1, TermWidth + TermHeight + MaxTermOps }

TermCall(name, text, x, y, after) ==
    /\ nops < MaxTermOps
    /\ nops' = nops + 1
    /\ tprev' = term
    /\ term' = after
    /\ tcall' = [name |-> name, text |-> text, x |-> x, y |-> y]
    /\ UNCHANGED <<encVars, sessionVars, opVars, listenerVars, slogVars, threadVars>>

DoWriteText == \E text \in TermTexts : TermCall("write_text", text, 0, 0, write_text(term, text))

DoNewline == TermCall("newline", <<>>, 0, 0, newline(term))

DoSetCursorCol ==
    \E col \in TermInts : TermCall("set_cursor_col", <<>>, col, 0, set_cursor_col(term, col))

DoSetCursorPos ==
    \E x \in TermInts, y \in TermInts :
        TermCall("set_cursor_pos", <<>>, x, y, set_cursor_pos(term, x, y))

DoClearLine == TermCall("clear_line", <<>>, 0, 0, clear_line(term))

DoClearScreen == TermCall("clear_screen", <<>>, 0, 0, clear_screen(term))

DoRecordBell == TermCall("record_bell", <<>>, 0, 0, record_bell(term))

\* a call of one of the two reading methods: the value it returns is kept
TermRead(name, value, after) ==
    /\ nops < MaxTermOps
    /\ nops' = nops + 1
    /\ tprev' = term
    /\ term' = after
    /\ tcall' = [name |-> name, value |-> value]
    /\ UNCHANGED <<encVars, sessionVars, opVars, listenerVars, slogVars, threadVars>>

DoGetVisibleText ==
    TermRead("get_visible_text", [text |-> get_visible_text(term)], GetVisibleTextLeaves(term))

DoHasBell == TermRead("has_bell", [bell |-> has_bell(term)], HasBellLeaves(term))

TermSpecInit ==
    /\ encIn = <<>>
    /\ encOut = NoOut
    /\ encMode = "none"
    /\ ClientInit
    /\ TermInit
    /\ SlogInit

TermNext ==
    \/ DoWriteText
    \/ DoNewline
    \/ DoSetCursorCol
    \/ DoSetCursorPos
    \/ DoClearLine
    \/ DoClearScreen
    \/ DoRecordBell
    \/ DoGetVisibleText
    \/ DoHasBell

SpecTerm == TermSpecInit /\ [][TermNext]_vars

(* --------------------- the decoder specification ----------------------- *)

\* wire records: the eight commands, a hop object without its y (KeyError),
\* two records with no known key, and mor records with commands, another mor
\* and an unknown record inside
BlitPut9 == [put |-> << <<57>> >>]
BlitPutAB == [put |-> << <<97>>, <<98>> >>]
BlitKlr ==
    [klr |-> << [text |-> << <<97>> >>, stye |-> "br"],
                [stye |-> "un"],
                [text |-> << <<98>>, <<99>> >>, stye |-> "bl"] >>]
BlitNel == [nel |-> "None"]
BlitHopCol == [hop |-> [int |-> 1]]
BlitHopPos == [hop |-> [x |-> 1, y |-> 1]]
BlitHopNoY == [hop |-> [x |-> 1]]
BlitWyp == [wyp |-> "None"]
BlitClr == [clr |-> "None"]
BlitBel == [bel |-> "None"]
BlitSag == [sag |-> "path"]
BlitUrl == [url |-> "link"]
BlitMorNested ==
    [mor |-> << BlitPut9, [mor |-> << BlitNel, BlitSag, BlitPutAB >>], BlitBel >>]
BlitMorRaises == [mor |-> << BlitPutAB, BlitHopNoY, BlitPut9 >>]
BlitMorEmpty == [mor |-> <<>>]

WireBlits ==
    { BlitPut9, BlitPutAB, BlitKlr, BlitNel, BlitHopCol, BlitHopPos, BlitHopNoY,
      BlitWyp, BlitClr, BlitBel, BlitSag, BlitUrl, BlitMorNested, BlitMorRaises,
      BlitMorEmpty }

\* _process_blit(blit, terminal) on the buffer decoded so far
DecodeBlit ==
    /\ nops < MaxDecodes
    /\ \E blit \in WireBlits :
          LET d == ProcessBlit(blit, [t |-> term, exc |-> FALSE]) IN
          /\ term' = d.t
          /\ tcall' = [name |-> "_process_blit", blit |-> blit, raised |-> d.exc]
    /\ tprev' = term
    /\ nops' = nops + 1
    /\ UNCHANGED <<encVars, sessionVars, opVars, listenerVars, slogVars, threadVars>>

DecInit ==
    /\ encIn = <<>>
    /\ encOut = NoOut
    /\ encMode = "none"
    /\ ClientInit
    /\ TermInit
    /\ SlogInit

DecNext == DecodeBlit

SpecDec == DecInit /\ [][DecNext]_vars

(* ----------------------- session state --------------------------------- *)

\* "not self.cookies or not self.channel_id" with "and" for "or"
NotConnected_And(ck, ch) == ck # "set" /\ ch # "set"

\* "if not self.cookies or not self.channel_id": None and the empty dict are
\* falsy
NotConnected(ck, ch) == ck # "set" \/ ch # "set"

\* connect(): a failed or raising login leaves the session as it was; a
\* successful one stores the response's cookies (possibly none) and a fresh
\* channel id, whatever the later requests answer
Connect ==
    /\ pc = "idle"
    /\ \E auth_ok \in BOOLEAN, jar \in {"empty", "set"} :
          IF auth_ok
          THEN cookies' = jar /\ channel_id' = "set"
          ELSE UNCHANGED <<cookies, channel_id>>
    /\ UNCHANGED <<encVars, opVars, listenerVars>>
    /\ UNCHANGED <<termVars, slogVars, threadVars>>

\* disconnect()
Disconnect ==
    /\ pc = "idle"
    /\ cookies' = "None"
    /\ channel_id' = "None"
    /\ UNCHANGED <<encVars, opVars, listenerVars>>
    /\ UNCHANGED <<termVars, slogVars, threadVars>>

(* ------------------ the event stream and its listener ------------------ *)

\* wire events: a write of "9", a bell, a hop object without its y (decoding
\* it raises KeyError), and a poke acknowledgement (no 'json' key)
EvPut == [json |-> [mor |-> << [put |-> << <<57>> >>] >>]]

EvBel == [json |-> [mor |-> << [bel |-> "None"] >>]]

EvBadHop == [json |-> [mor |-> << [hop |-> [x |-> 1]] >>]]

\* lines of the stream: data lines that parse, a data line whose JSON does not
\* parse, a line without the 'data: ' prefix, and a line whose bytes are not
\* UTF-8 (line.decode('utf-8') raises UnicodeDecodeError)
DataLine(ev) == [utf8 |-> TRUE, data |-> TRUE, parses |-> TRUE, value |-> ev]

GarbageLine == [utf8 |-> TRUE, data |-> TRUE, parses |-> FALSE, value |-> [ok |-> "ok"]]

IdLine == [utf8 |-> TRUE, data |-> FALSE, parses |-> FALSE, value |-> [ok |-> "ok"]]

BadBytesLine == [utf8 |-> FALSE, data |-> FALSE, parses |-> FALSE, value |-> [ok |-> "ok"]]

Lines ==
    { DataLine(EvPut), DataLine(EvBel), DataLine(EvBadHop), GarbageLine, IdLine,
      BadBytesLine }

\* the line carries an event that json.loads returns
WellFormed(line) == line.utf8 /\ line.data /\ line.parses

\* capture_events: requests.get(...) returns the stream, or raises and the
\* thread ends
ListenerOpen ==
    /\ lpc = "starting"
    /\ \E ok \in BOOLEAN : lpc' = IF ok THEN "waiting" ELSE "exited"
    /\ UNCHANGED <<encVars, sessionVars, opVars, events, lline, nlines, late, arrived>>
    /\ UNCHANGED <<termVars, slogVars, threadVars>>

\* iter_lines() yields the next line
LineArrives ==
    /\ lpc = "waiting"
    /\ nlines < MaxLines
    /\ \E line \in Lines :
          /\ lline' = line
          /\ late' = IF pc = "grace" /\ WellFormed(line)
                     THEN Append(late, line.value) ELSE late
          /\ arrived' = IF ~stop_event /\ WellFormed(line)
                        THEN Append(arrived, line.value) ELSE arrived
    /\ nlines' = nlines + 1
    /\ lpc' = "checking"
    /\ UNCHANGED <<encVars, sessionVars, opVars, events>>
    /\ UNCHANGED <<termVars, slogVars, threadVars>>

\* the stream delivers a line after the thread has ended on an exception:
\* nobody reads it
LineArrivesUnread ==
    /\ lpc = "crashed"
    /\ nlines < MaxLines
    /\ \E line \in Lines :
          /\ late' = IF pc = "grace" /\ WellFormed(line)
                     THEN Append(late, line.value) ELSE late
          /\ arrived' = IF ~stop_event /\ WellFormed(line)
                        THEN Append(arrived, line.value) ELSE arrived
    /\ nlines' = nlines + 1
    /\ UNCHANGED <<encVars, sessionVars, opVars, events, lpc, lline>>
    /\ UNCHANGED <<termVars, slogVars, threadVars>>

\* a listener that never looks at the flag
IsSet_Never(flag) == FALSE

\* "stop_event.is_set()"
IsSet(flag) == flag

\* "if stop_event.is_set(): break"
ListenerCheckStop ==
    /\ lpc = "checking"
    /\ lpc' = IF IsSet(stop_event) THEN "exited" ELSE "handling"
    /\ UNCHANGED <<encVars, sessionVars, opVars, events, lline, nlines, late, arrived>>
    /\ UNCHANGED <<termVars, slogVars, threadVars>>

\* line.decode('utf-8') is evaluated in the if condition, outside the inner
\* try: when it raises, the outer except ends the thread
LineEnds(line) == ~line.utf8

\* the rest of the loop body: append the decoded event, skip anything else
ListenerHandleLine ==
    /\ lpc = "handling"
    /\ events' = IF WellFormed(lline) THEN Append(events, lline.value) ELSE events
    /\ lpc' = IF LineEnds(lline) THEN "crashed" ELSE "waiting"
    /\ UNCHANGED <<encVars, sessionVars, opVars, lline, nlines, late, arrived>>
    /\ UNCHANGED <<termVars, slogVars, threadVars>>

\* the stream ends or the read raises: the thread ends
ListenerStreamEnds ==
    /\ lpc = "waiting"
    /\ lpc' = "exited"
    /\ UNCHANGED <<encVars, sessionVars, opVars, events, lline, nlines, late, arrived>>
    /\ UNCHANGED <<termVars, slogVars, threadVars>>

(* -------------------------- send_until_bell ---------------------------- *)

SEND_UNTIL_BELL == "send_until_bell"

SEND_AND_LISTEN == "send_and_listen"

\* "Not connected"
NOT_CONNECTED == <<78, 111, 116, 32, 99, 111, 110, 110, 101, 99, 116, 101, 100>>

\* the symbols handed to the capture operations: 'a', ctrl-D (never posted),
\* delete and a string ord() raises on
ProbeSymbols == { <<97>>, <<4>>, <<127>>, NotAChar }

BellResponse(input_sequence, accepted, rejected, terminal_state, bell_position, full_output) ==
    [input_sequence |-> input_sequence, chars_accepted |-> accepted,
     chars_rejected |-> rejected, terminal_state |-> terminal_state,
     bell_position |-> bell_position, full_output |-> full_output]

\* "chars_accepted = i" counting the symbol that caused the bell
AcceptedOnBell_Counted(idx) == idx + 1

\* "chars_accepted = i  # Don't count the char that caused the bell"
AcceptedOnBell(idx) == idx

\* "chars_accepted = i + 1" not advancing
AcceptedOnNoBell_Stuck(idx) == idx

\* "chars_accepted = i + 1"
AcceptedOnNoBell(idx) == idx + 1

\* chars[chars_accepted:] one symbol too far
CharsRejected_OffByOne(cs, accepted) ==
    IF accepted < Len(cs) THEN SubSeq(cs, accepted + 2, Len(cs)) ELSE <<>>

\* "chars[chars_accepted:] if chars_accepted < len(chars) else []"
CharsRejected(cs, accepted) ==
    IF accepted < Len(cs) THEN SubSeq(cs, accepted + 1, Len(cs)) ELSE <<>>

\* "chars_accepted if chars_accepted < len(chars) else -1"
BellPosition(cs, accepted) == IF accepted < Len(cs) THEN accepted ELSE -1

\* entry of send_until_bell: the not-connected return, or the listener is
\* started and the loop begins
SendUntilBellCall ==
    /\ pc = "idle"
    /\ \E cs \in SeqsUpTo(ProbeSymbols, MaxChars) :
          /\ chars' = cs
          /\ IF NotConnected(cookies, channel_id)
             THEN /\ result' = BellResponse(cs, 0, cs, NOT_CONNECTED, 0, NOT_CONNECTED)
                  /\ pc' = "done"
                  /\ UNCHANGED lpc
             ELSE /\ result' = result
                  /\ pc' = "send"
                  /\ lpc' = "starting"
    /\ op' = SEND_UNTIL_BELL
    /\ events' = <<>>
    /\ stop_event' = FALSE
    /\ chars_accepted' = 0
    /\ i' = 0
    /\ UNCHANGED <<encVars, sessionVars, chars_sent, lline, nlines, sent, bell_at,
                   send_failed, terminal, seen, late, arrived>>
    /\ UNCHANGED <<termVars, slogVars, threadVars>>

\* the decode pass going on with the TerminalBuffer of the step before
ProbeTerminal_Reused(previous) == previous

\* "terminal = TerminalBuffer()" at the start of every decode pass
ProbeTerminal(previous) == NewTerminal(TermWidth, TermHeight)

\* top of the loop: the input is exhausted, or _send_character(char) posts
\* the symbol's belt, returns without posting, or raises; after the
\* per-character wait the decode pass starts on a new TerminalBuffer
SendUntilBellSend ==
    /\ op = SEND_UNTIL_BELL
    /\ pc = "send"
    /\ IF i >= Len(chars)
       THEN pc' = "finally" /\ UNCHANGED <<sent, send_failed>>
       ELSE IF SendCharacterRaises(chars[i + 1])
       THEN pc' = "finally" /\ send_failed' = TRUE /\ UNCHANGED sent
       ELSE IF SendCharacterBelt(chars[i + 1]) = <<>>
       THEN pc' = "probe" /\ UNCHANGED <<sent, send_failed>>
       ELSE \E post_ok \in BOOLEAN :
               IF post_ok
               THEN /\ sent' = Append(sent, [index |-> i,
                                             belt |-> SendCharacterBelt(chars[i + 1])[1]])
                    /\ pc' = "probe"
                    /\ UNCHANGED send_failed
               ELSE /\ pc' = "finally"
                    /\ send_failed' = TRUE
                    /\ UNCHANGED sent
    /\ IF pc' = "probe"
       THEN terminal' = ProbeTerminal(terminal) /\ seen' = 0
       ELSE UNCHANGED <<terminal, seen>>
    /\ UNCHANGED <<encVars, sessionVars, listenerVars, op, chars, i, chars_accepted,
                   chars_sent, stop_event, result, bell_at>>
    /\ UNCHANGED <<termVars, slogVars, threadVars>>

\* one iteration of "for event in events": the list iterator takes the next
\* event of the buffer, which the listener may have appended since the pass
\* began; an exception of the decoder leaves the try block
SendUntilBellDecode ==
    /\ op = SEND_UNTIL_BELL
    /\ pc = "probe"
    /\ seen < Len(events)
    /\ LET d == ProcessEvent(events[seen + 1], [t |-> terminal, exc |-> FALSE]) IN
          /\ terminal' = d.t
          /\ pc' = IF d.exc THEN "finally" ELSE "probe"
    /\ seen' = seen + 1
    /\ UNCHANGED <<encVars, sessionVars, listenerVars, op, chars, i, chars_accepted,
                   chars_sent, stop_event, sent, result, bell_at, send_failed>>
    /\ UNCHANGED <<termVars, slogVars, threadVars>>

\* the iterator is exhausted: "if terminal.has_bell(): ... break / else: ..."
SendUntilBellProbe ==
    /\ op = SEND_UNTIL_BELL
    /\ pc = "probe"
    /\ seen >= Len(events)
    /\ IF has_bell(terminal)
       THEN /\ chars_accepted' = AcceptedOnBell(i)
            /\ bell_at' = i
            /\ pc' = "finally"
            /\ UNCHANGED i
       ELSE /\ chars_accepted' = AcceptedOnNoBell(i)
            /\ i' = i + 1
            /\ pc' = "send"
            /\ UNCHANGED bell_at
    /\ UNCHANGED <<encVars, sessionVars, listenerVars, op, chars, chars_sent,
                   stop_event, sent, result, send_failed, terminal, seen>>
    /\ UNCHANGED <<termVars, slogVars, threadVars>>

\* "finally: stop_event.set()"
SendUntilBellFinally ==
    /\ op = SEND_UNTIL_BELL
    /\ pc = "finally"
    /\ stop_event' = TRUE
    /\ pc' = "grace"
    /\ UNCHANGED <<encVars, sessionVars, listenerVars, op, chars, i, chars_accepted,
                   chars_sent, sent, result, bell_at, send_failed, terminal,
                   seen>>
    /\ UNCHANGED <<termVars, slogVars, threadVars>>

\* after the post-sequence wait: _extract_output(events), outside the try,
\* then the BellResponse
SendUntilBellReturn ==
    /\ op = SEND_UNTIL_BELL
    /\ pc = "grace"
    /\ LET d == Replay(events) IN
          IF d.exc
          THEN pc' = "raised" /\ UNCHANGED result
          ELSE /\ result' = BellResponse(chars, chars_accepted,
                                         CharsRejected(chars, chars_accepted),
                                         get_visible_text(d.t),
                                         BellPosition(chars, chars_accepted),
                                         get_visible_text(d.t))
               /\ pc' = "done"
    /\ UNCHANGED <<encVars, sessionVars, listenerVars, op, chars, i, chars_accepted,
                   chars_sent, stop_event, sent, bell_at, send_failed,
                   terminal, seen>>
    /\ UNCHANGED <<termVars, slogVars, threadVars>>

(* -------------------------- validate_command --------------------------- *)

VALIDATE_COMMAND == "validate_command"

\* Python's None in a field that otherwise holds an int, which is written
\* [int |-> n]
None == [none |-> TRUE]

\* "chars = list(command)": a list of one-character strings
IsListOfCommand(cs) == \A k \in 1..Len(cs) : Len(cs[k]) = 1

\* error_position set to the bell position of a valid command too
ErrorPosition_Always(is_valid, bell_position) == [int |-> bell_position]

\* "bell_result.bell_position if not is_valid else None"
ErrorPosition(is_valid, bell_position) ==
    IF ~is_valid THEN [int |-> bell_position] ELSE None

\* the dict validate_command builds from the BellResponse
Validation(cs, bell_result) ==
    LET is_valid == bell_result.chars_accepted = Len(cs) IN
    [is_valid |-> is_valid,
     accepted_portion |-> Join(SubSeq(cs, 1, bell_result.chars_accepted)),
     rejected_portion |-> Join(bell_result.chars_rejected),
     error_position |-> ErrorPosition(is_valid, bell_result.bell_position),
     terminal_state |-> bell_result.terminal_state,
     chars_accepted |-> bell_result.chars_accepted,
     total_chars |-> Len(cs)]

\* validate_command(command) is send_until_bell(list(command)) followed by
\* the construction of the dict: a run of send_until_bell on a list of
\* one-character strings that has returned is the call of line 633, and this
\* is the rest of the body (when the call raises, so does validate_command)
ValidateCommandReturn ==
    /\ op = SEND_UNTIL_BELL
    /\ pc = "done"
    /\ IsListOfCommand(chars)
    /\ op' = VALIDATE_COMMAND
    /\ result' = Validation(chars, result)
    /\ UNCHANGED <<encVars, sessionVars, listenerVars, pc, chars, i, chars_accepted,
                   chars_sent, stop_event, sent, bell_at, send_failed, terminal, seen>>
    /\ UNCHANGED <<termVars, slogVars, threadVars>>

(* -------------------------- send_and_listen ---------------------------- *)

\* the fields of StreamCapture the properties read; terminal_events is the
\* events list itself, not a copy
StreamCapture(input_sequence, terminal_events, sent_count) ==
    [input_sequence |-> input_sequence, terminal_events |-> terminal_events,
     chars_sent |-> sent_count]

\* a symbol that was not posted left out of the count
CountSkipped_NotCounted(count, idx) == count

\* "chars_sent = i + 1" after a _send_character that returned without posting
CountSkipped(count, idx) == idx + 1

SendAndListenCall ==
    /\ pc = "idle"
    /\ \E cs \in SeqsUpTo(ProbeSymbols, MaxChars) :
          /\ chars' = cs
          /\ IF NotConnected(cookies, channel_id)
             THEN /\ result' = StreamCapture(cs, <<>>, 0)
                  /\ pc' = "done"
                  /\ UNCHANGED lpc
             ELSE /\ result' = result
                  /\ pc' = "send"
                  /\ lpc' = "starting"
    /\ op' = SEND_AND_LISTEN
    /\ events' = <<>>
    /\ stop_event' = FALSE
    /\ chars_sent' = 0
    /\ i' = 0
    /\ UNCHANGED <<encVars, sessionVars, chars_accepted, lline, nlines, sent, bell_at,
                   send_failed, terminal, seen, late, arrived>>
    /\ UNCHANGED <<termVars, slogVars, threadVars>>

\* the send loop, then the listen wait
SendAndListenSend ==
    /\ op = SEND_AND_LISTEN
    /\ pc = "send"
    /\ IF i >= Len(chars)
       THEN pc' = "finally" /\ UNCHANGED <<sent, send_failed, chars_sent, i>>
       ELSE IF SendCharacterRaises(chars[i + 1])
       THEN pc' = "finally" /\ send_failed' = TRUE /\ UNCHANGED <<sent, chars_sent, i>>
       ELSE IF SendCharacterBelt(chars[i + 1]) = <<>>
       THEN /\ chars_sent' = CountSkipped(chars_sent, i)
            /\ i' = i + 1
            /\ pc' = "send"
            /\ UNCHANGED <<sent, send_failed>>
       ELSE \E post_ok \in BOOLEAN :
               IF post_ok
               THEN /\ sent' = Append(sent, [index |-> i,
                                             belt |-> SendCharacterBelt(chars[i + 1])[1]])
                    /\ chars_sent' = i + 1
                    /\ i' = i + 1
                    /\ pc' = "send"
                    /\ UNCHANGED send_failed
               ELSE /\ pc' = "finally"
                    /\ send_failed' = TRUE
                    /\ UNCHANGED <<sent, chars_sent, i>>
    /\ UNCHANGED <<encVars, sessionVars, listenerVars, op, chars, chars_accepted,
                   stop_event, result, bell_at, terminal, seen>>
    /\ UNCHANGED <<termVars, slogVars, threadVars>>

\* "finally: stop_event.set()"
SendAndListenFinally ==
    /\ op = SEND_AND_LISTEN
    /\ pc = "finally"
    /\ stop_event' = TRUE
    /\ pc' = "grace"
    /\ UNCHANGED <<encVars, sessionVars, listenerVars, op, chars, i, chars_accepted,
                   chars_sent, sent, result, bell_at, send_failed, terminal,
                   seen>>
    /\ UNCHANGED <<termVars, slogVars, threadVars>>

\* the StreamCapture is built right after the flag is set
SendAndListenReturn ==
    /\ op = SEND_AND_LISTEN
    /\ pc = "grace"
    /\ result' = StreamCapture(chars, events, chars_sent)
    /\ pc' = "done"
    /\ UNCHANGED <<encVars, sessionVars, listenerVars, op, chars, i, chars_accepted,
                   chars_sent, stop_event, sent, bell_at, send_failed,
                   terminal, seen>>
    /\ UNCHANGED <<termVars, slogVars, threadVars>>

(* --------------- send_chars_batched, send_command_batched -------------- *)

SEND_CHARS_BATCHED == "send_chars_batched"

SEND_COMMAND_BATCHED == "send_command_batched"

\* the characters of the command strings handed to send_command_batched:
\* 'a' and carriage return
CommandChars == { 97, 13 }

\* the belts the running batched operation built before its try block
BatchedBelts ==
    IF op = SEND_CHARS_BATCHED THEN CreateBeltsFromChars(chars).belts
    ELSE CreateBeltsFromString(Join(chars)).belts

\* "chars_sent=len(chars)  # Report original command length for compatibility"
BatchedCharsSent(cs) == Len(cs)

\* entry of send_chars_batched: the not-connected return, or
\* _create_belts_from_chars raises out of the call, or the listener is started
SendCharsBatchedCall ==
    /\ pc = "idle"
    /\ \E cs \in SeqsUpTo(ProbeSymbols, MaxChars) :
          /\ chars' = cs
          /\ IF NotConnected(cookies, channel_id)
             THEN /\ result' = StreamCapture(cs, <<>>, 0)
                  /\ pc' = "done"
                  /\ UNCHANGED lpc
             ELSE IF CreateBeltsFromChars(cs).raised
             THEN /\ pc' = "raised"
                  /\ UNCHANGED <<result, lpc>>
             ELSE /\ result' = result
                  /\ pc' = "send"
                  /\ lpc' = "starting"
    /\ op' = SEND_CHARS_BATCHED
    /\ events' = <<>>
    /\ stop_event' = FALSE
    /\ chars_sent' = 0
    /\ i' = 0
    /\ UNCHANGED <<encVars, sessionVars, chars_accepted, lline, nlines, sent, bell_at,
                   send_failed, terminal, seen, late, arrived>>
    /\ UNCHANGED <<termVars, slogVars, threadVars>>

\* entry of send_command_batched; chars holds list(command)
SendCommandBatchedCall ==
    /\ pc = "idle"
    /\ \E command \in SeqsUpTo(CommandChars, MaxChars) :
          /\ chars' = ListOf(command)
          /\ IF NotConnected(cookies, channel_id)
             THEN /\ result' = StreamCapture(ListOf(command), <<>>, 0)
                  /\ pc' = "done"
                  /\ UNCHANGED lpc
             ELSE /\ result' = result
                  /\ pc' = "send"
                  /\ lpc' = "starting"
    /\ op' = SEND_COMMAND_BATCHED
    /\ events' = <<>>
    /\ stop_event' = FALSE
    /\ chars_sent' = 0
    /\ i' = 0
    /\ UNCHANGED <<encVars, sessionVars, chars_accepted, lline, nlines, sent, bell_at,
                   send_failed, terminal, seen, late, arrived>>
    /\ UNCHANGED <<termVars, slogVars, threadVars>>

\* the belt loop, then the listen wait; i is belts_sent
BatchedSend(o) ==
    /\ op = o
    /\ pc = "send"
    /\ IF i >= Len(BatchedBelts)
       THEN pc' = "finally" /\ UNCHANGED <<sent, send_failed, i>>
       ELSE \E post_ok \in BOOLEAN :
               IF post_ok
               THEN /\ sent' = Append(sent, [index |-> i, belt |-> BatchedBelts[i + 1]])
                    /\ i' = i + 1
                    /\ pc' = "send"
                    /\ UNCHANGED send_failed
               ELSE /\ pc' = "finally"
                    /\ send_failed' = TRUE
                    /\ UNCHANGED <<sent, i>>
    /\ UNCHANGED <<encVars, sessionVars, listenerVars, op, chars, chars_accepted,
                   chars_sent, stop_event, result, bell_at, terminal, seen>>
    /\ UNCHANGED <<termVars, slogVars, threadVars>>

\* "finally: stop_event.set()"
BatchedFinally(o) ==
    /\ op = o
    /\ pc = "finally"
    /\ stop_event' = TRUE
    /\ pc' = "grace"
    /\ UNCHANGED <<encVars, sessionVars, listenerVars, op, chars, i, chars_accepted,
                   chars_sent, sent, result, bell_at, send_failed, terminal,
                   seen>>
    /\ UNCHANGED <<termVars, slogVars, threadVars>>

\* the StreamCapture is built right after the flag is set
BatchedReturn(o) ==
    /\ op = o
    /\ pc = "grace"
    /\ result' = StreamCapture(chars, events, BatchedCharsSent(chars))
    /\ pc' = "done"
    /\ UNCHANGED <<encVars, sessionVars, listenerVars, op, chars, i, chars_accepted,
                   chars_sent, stop_event, sent, bell_at, send_failed,
                   terminal, seen>>
    /\ UNCHANGED <<termVars, slogVars, threadVars>>

SendCharsBatchedSend == BatchedSend(SEND_CHARS_BATCHED)

SendCharsBatchedFinally == BatchedFinally(SEND_CHARS_BATCHED)

SendCharsBatchedReturn == BatchedReturn(SEND_CHARS_BATCHED)

SendCommandBatchedSend == BatchedSend(SEND_COMMAND_BATCHED)

SendCommandBatchedFinally == BatchedFinally(SEND_COMMAND_BATCHED)

SendCommandBatchedReturn == BatchedReturn(SEND_COMMAND_BATCHED)

(* ------------------------ slog correlation ----------------------------- *)

\* str.strip()
RECURSIVE LStrip(_)
LStrip(line) ==
    IF line # <<>> /\ IsSpace(line[1]) THEN LStrip(Tail(line)) ELSE line

Strip(line) == LStrip(RStrip(line))

\* lines of the slog stream: whether they start with 'data:' and what follows
SlogLines ==
    { [data |-> TRUE,  rest |-> <<32, 109>>],
      [data |-> TRUE,  rest |-> <<32>>],
      [data |-> FALSE, rest |-> <<109>>] }

\* the ids (object identities) of a list of message_data
Ids(messages) == { messages[k].id : k \in 1..Len(messages) }

\* a fresh history entry for a message enqueued at time ts
NewEntry(ts) ==
    [timestamp |-> ts, returned |-> 0, by |-> 0, deferred |-> FALSE,
     dropped |-> FALSE, missed |-> FALSE]

\* time.time() moves on
SlogTick ==
    /\ now < MaxClock
    /\ now' = now + 1
    /\ UNCHANGED <<slog_queue, nslog, qpc, nqueries, start_time, end_time,
                   correlated_messages, temp_messages, examined, at_begin, msglog>>
    /\ UNCHANGED <<encVars, sessionVars, opVars, listenerVars, termVars, threadVars>>

\* capture_slog: one iteration of the loop over response.iter_lines()
SlogLine ==
    /\ nslog < MaxSlog
    /\ nslog' = nslog + 1
    /\ \E line \in SlogLines :
          LET slog_data == Strip(line.rest) IN
          IF line.data /\ slog_data # <<>>
          THEN /\ slog_queue' = Append(slog_queue,
                      [timestamp |-> now, message |-> slog_data, id |-> Len(msglog) + 1])
               /\ msglog' = Append(msglog, NewEntry(now))
          ELSE UNCHANGED <<slog_queue, msglog>>
    /\ UNCHANGED <<now, qpc, nqueries, start_time, end_time, correlated_messages,
                   temp_messages, examined, at_begin>>
    /\ UNCHANGED <<encVars, sessionVars, opVars, listenerVars, termVars, threadVars>>

\* the window test with the end bound excluded
Correlates_EndExclusive(message_data, start, end) ==
    start <= message_data.timestamp /\ message_data.timestamp < end

\* start_time <= message_data['timestamp'] <= end_time
Correlates(message_data, start, end) ==
    start <= message_data.timestamp /\ message_data.timestamp <= end

\* message_data['timestamp'] > end_time
TooNew(message_data, end) == message_data.timestamp > end

\* what the drain loop does with one message
Verdict(message_data, start, end) ==
    IF Correlates(message_data, start, end) THEN "returned"
    ELSE IF TooNew(message_data, end) THEN "deferred"
    ELSE "dropped"

\* a drain that also keeps what it returns
Keeps_Peek(verdict) == verdict \in {"deferred", "returned"}

\* the messages that go to temp_messages
Keeps(verdict) == verdict = "deferred"

\* a put-back that loses the message
PutBack_Lose(mailbox, msg) == mailbox

\* self.slog_queue.put_nowait(msg) on the unbounded queue
PutBack(mailbox, msg) == Append(mailbox, msg)

\* _get_correlated_slog_messages(start_time, end_time) is entered
QueryBegin ==
    /\ qpc = "idle"
    /\ nqueries < MaxQueries
    /\ \E start \in 0..MaxClock, end \in 0..MaxClock :
          /\ start <= end
          /\ start_time' = start
          /\ end_time' = end
    /\ correlated_messages' = <<>>
    /\ temp_messages' = <<>>
    /\ examined' = <<>>
    /\ at_begin' = Ids(slog_queue)
    /\ qpc' = "drain"
    /\ UNCHANGED <<now, slog_queue, nslog, nqueries, msglog>>
    /\ UNCHANGED <<encVars, sessionVars, opVars, listenerVars, termVars, threadVars>>

\* one get_nowait() that finds a message
QueryGet ==
    /\ qpc = "drain"
    /\ slog_queue # <<>>
    /\ LET message_data == Head(slog_queue)
           verdict == Verdict(message_data, start_time, end_time)
           id == message_data.id
       IN /\ slog_queue' = Tail(slog_queue)
          /\ correlated_messages' =
                IF verdict = "returned"
                THEN Append(correlated_messages, message_data.message)
                ELSE correlated_messages
          /\ temp_messages' =
                IF Keeps(verdict) THEN Append(temp_messages, message_data)
                ELSE temp_messages
          /\ examined' = Append(examined, [id |-> id, verdict |-> verdict])
          /\ msglog' = [msglog EXCEPT
                ![id].returned = IF verdict = "returned" THEN @ + 1 ELSE @,
                ![id].by = IF verdict = "returned" THEN nqueries + 1 ELSE @,
                ![id].deferred = @ \/ verdict = "deferred",
                ![id].dropped = @ \/ verdict = "dropped"]
    /\ UNCHANGED <<now, nslog, qpc, nqueries, start_time, end_time, at_begin>>
    /\ UNCHANGED <<encVars, sessionVars, opVars, listenerVars, termVars, threadVars>>

\* get_nowait() raises queue.Empty: the drain loop ends
QueryEmpty ==
    /\ qpc = "drain"
    /\ slog_queue = <<>>
    /\ qpc' = "putback"
    /\ UNCHANGED <<now, slog_queue, nslog, nqueries, start_time, end_time,
                   correlated_messages, temp_messages, examined, at_begin, msglog>>
    /\ UNCHANGED <<encVars, sessionVars, opVars, listenerVars, termVars, threadVars>>

\* one iteration of the put-back loop
QueryPutBack ==
    /\ qpc = "putback"
    /\ temp_messages # <<>>
    /\ slog_queue' = PutBack(slog_queue, Head(temp_messages))
    /\ temp_messages' = Tail(temp_messages)
    /\ UNCHANGED <<now, nslog, qpc, nqueries, start_time, end_time,
                   correlated_messages, examined, at_begin, msglog>>
    /\ UNCHANGED <<encVars, sessionVars, opVars, listenerVars, termVars, threadVars>>

\* return correlated_messages
QueryReturn ==
    /\ qpc = "putback"
    /\ temp_messages = <<>>
    /\ qpc' = "idle"
    /\ nqueries' = nqueries + 1
    /\ msglog' = [id \in DOMAIN msglog |->
                    [msglog[id] EXCEPT !.missed =
                        \/ @
                        \/ /\ msglog[id].deferred
                           /\ msglog[id].returned = 0
                           /\ start_time <= msglog[id].timestamp
                           /\ msglog[id].timestamp <= end_time]]
    /\ UNCHANGED <<now, slog_queue, nslog, start_time, end_time,
                   correlated_messages, temp_messages, examined, at_begin>>
    /\ UNCHANGED <<encVars, sessionVars, opVars, listenerVars, termVars, threadVars>>

SlogSpecInit ==
    /\ encIn = <<>>
    /\ encOut = NoOut
    /\ encMode = "none"
    /\ ClientInit
    /\ TermInit
    /\ SlogInit

SlogNext ==
    \/ SlogTick
    \/ SlogLine
    \/ QueryBegin
    \/ QueryGet
    \/ QueryEmpty
    \/ QueryPutBack
    \/ QueryReturn

SpecSlog == SlogSpecInit /\ [][SlogNext]_vars

(* --------------- the slog listener over connect/disconnect ------------- *)

\* a thread that holds no line
NoSlogLine == [data |-> FALSE, rest |-> <<>>]

\* a thread started by _start_persistent_slog_capture: where it is in
\* capture_slog, the line it holds, and as history whether the stop event had
\* been set before it was started, how many lines it has received and which
\* messages it has enqueued
NewSlogThread(stopped) ==
    [state |-> "opening", line |-> NoSlogLine,
     stopped_before |-> stopped, lines |-> 0, enqueued |-> {}]

\* threading.Thread.is_alive() of self.slog_thread
SlogThreadAlive ==
    slog_threads # <<>> /\ slog_threads[Len(slog_threads)].state # "exited"

\* a start that clears the stop event of the session before
StopEventAtStart_Cleared(flag) == FALSE

\* _start_persistent_slog_capture leaves self.slog_stop_event as it finds it
StopEventAtStart(flag) == flag

\* connect(): the login fails or raises and nothing changes; or the cookies
\* and the channel id are stored and a later request fails; or the
\* subscription succeeds, the slog thread is started and the caller sleeps
\* half a second. The requests and the sleep take far longer than a thread
\* takes over a line: a line in hand is dealt with before connect() returns
ConnectSession ==
    /\ dpc = "idle"
    /\ qpc = "idle"
    /\ \A t \in 1..Len(slog_threads) : slog_threads[t].state # "handling"
    /\ \E auth_ok \in BOOLEAN, jar \in {"empty", "set"}, sub_ok \in BOOLEAN :
          IF ~auth_ok
          THEN UNCHANGED <<cookies, channel_id, slog_threads, slog_stop_event, now>>
          ELSE /\ cookies' = jar
               /\ channel_id' = "set"
               /\ IF sub_ok /\ Len(slog_threads) < MaxSessions /\ now < MaxClock
                  THEN /\ slog_threads' = Append(slog_threads, NewSlogThread(slog_stop_event))
                       /\ slog_stop_event' = StopEventAtStart(slog_stop_event)
                       /\ now' = now + 1
                  ELSE UNCHANGED <<slog_threads, slog_stop_event, now>>
    /\ UNCHANGED <<slog_queue, nslog, qpc, nqueries, start_time, end_time,
                   correlated_messages, temp_messages, examined, at_begin, msglog>>
    /\ UNCHANGED <<encVars, opVars, listenerVars, termVars, dpc>>

\* disconnect(), first half of _stop_slog_capture: "if self.slog_thread and
\* self.slog_thread.is_alive(): self.slog_stop_event.set()"; without a live
\* thread the session fields are cleared at once
DisconnectStop ==
    /\ dpc = "idle"
    /\ qpc = "idle"
    /\ IF SlogThreadAlive
       THEN /\ slog_stop_event' = TRUE
            /\ dpc' = "joining"
            /\ UNCHANGED <<cookies, channel_id>>
       ELSE /\ cookies' = "None"
            /\ channel_id' = "None"
            /\ UNCHANGED <<slog_stop_event, dpc>>
    /\ UNCHANGED <<encVars, opVars, listenerVars, termVars, slogVars, slog_threads>>

\* "self.slog_thread.join(timeout=2)" returns: the thread has ended, or two
\* seconds have passed with the thread blocked in the network read (a thread
\* that holds a line is through with it long before); then the session
\* fields are cleared
DisconnectJoin ==
    /\ dpc = "joining"
    /\ slog_threads[Len(slog_threads)].state # "handling"
    /\ cookies' = "None"
    /\ channel_id' = "None"
    /\ dpc' = "idle"
    /\ UNCHANGED <<encVars, opVars, listenerVars, termVars, slogVars,
                   slog_threads, slog_stop_event>>

\* capture_slog: requests.get returns; a status other than 200 or an
\* exception ends the thread
CaptureSlogOpen(t) ==
    /\ slog_threads[t].state = "opening"
    /\ \E ok \in BOOLEAN :
          slog_threads' = [slog_threads EXCEPT ![t].state = IF ok THEN "waiting" ELSE "exited"]
    /\ UNCHANGED <<encVars, sessionVars, opVars, listenerVars, termVars, slogVars,
                   slog_stop_event, dpc>>

\* a slog listener that never looks at the stop event
SlogStopRequested_Never(flag) == FALSE

\* "self.slog_stop_event.is_set()"
SlogStopRequested(flag) == flag

\* iter_lines() yields a line: "if self.slog_stop_event.is_set(): break"
CaptureSlogLine(t) ==
    /\ slog_threads[t].state = "waiting"
    /\ nslog < MaxSessionLines
    /\ nslog' = nslog + 1
    /\ \E line \in SlogLines :
          slog_threads' = [slog_threads EXCEPT
              ![t].lines = @ + 1,
              ![t].line = IF SlogStopRequested(slog_stop_event) THEN NoSlogLine ELSE line,
              ![t].state = IF SlogStopRequested(slog_stop_event) THEN "exited" ELSE "handling"]
    /\ UNCHANGED <<now, slog_queue, qpc, nqueries, start_time, end_time,
                   correlated_messages, temp_messages, examined, at_begin, msglog>>
    /\ UNCHANGED <<encVars, sessionVars, opVars, listenerVars, termVars,
                   slog_stop_event, dpc>>

\* the rest of the loop body: a 'data:' line with text is stamped and put on
\* the queue
CaptureSlogHandle(t) ==
    /\ slog_threads[t].state = "handling"
    /\ LET line == slog_threads[t].line
           slog_data == Strip(line.rest)
           id == Len(msglog) + 1 IN
          IF line.data /\ slog_data # <<>>
          THEN /\ slog_queue' = Append(slog_queue,
                      [timestamp |-> now, message |-> slog_data, id |-> id])
               /\ msglog' = Append(msglog, NewEntry(now))
               /\ slog_threads' = [slog_threads EXCEPT ![t].state = "waiting",
                                                        ![t].line = NoSlogLine,
                                                        ![t].enqueued = @ \cup {id}]
          ELSE /\ slog_threads' = [slog_threads EXCEPT ![t].state = "waiting",
                                                       ![t].line = NoSlogLine]
               /\ UNCHANGED <<slog_queue, msglog>>
    /\ UNCHANGED <<now, nslog, qpc, nqueries, start_time, end_time,
                   correlated_messages, temp_messages, examined, at_begin>>
    /\ UNCHANGED <<encVars, sessionVars, opVars, listenerVars, termVars,
                   slog_stop_event, dpc>>

\* the stream ends or the read raises: the thread ends
CaptureSlogEnds(t) ==
    /\ slog_threads[t].state = "waiting"
    /\ slog_threads' = [slog_threads EXCEPT ![t].state = "exited"]
    /\ UNCHANGED <<encVars, sessionVars, opVars, listenerVars, termVars, slogVars,
                   slog_stop_event, dpc>>

SlogThreadOpens == \E t \in 1..Len(slog_threads) : CaptureSlogOpen(t)

SlogThreadGetsLine == \E t \in 1..Len(slog_threads) : CaptureSlogLine(t)

SlogThreadHandles == \E t \in 1..Len(slog_threads) : CaptureSlogHandle(t)

SlogThreadEnds == \E t \in 1..Len(slog_threads) : CaptureSlogEnds(t)

\* _get_correlated_slog_messages runs inside send_and_listen and
\* send_until_bell, which return before it when the client is not connected
\* ("if not self.cookies or not self.channel_id"), on the thread that calls
\* connect() and disconnect(); the window is the time the command took
\* ("sequence_start_time = time.time()", "sequence_end_time = time.time()"),
\* here a command that is over within one reading of the clock
SessionQueryBegin ==
    /\ dpc = "idle"
    /\ nqueries < MaxSessionQueries
    /\ ~NotConnected(cookies, channel_id)
    /\ QueryBegin
    /\ start_time' = now
    /\ end_time' = now

SessionInit ==
    /\ encIn = <<>>
    /\ encOut = NoOut
    /\ encMode = "none"
    /\ ClientInit
    /\ TermInit
    /\ SlogInit

SessionNext ==
    \/ SlogTick
    \/ ConnectSession
    \/ DisconnectStop
    \/ DisconnectJoin
    \/ SlogThreadOpens
    \/ SlogThreadGetsLine
    \/ SlogThreadHandles
    \/ SlogThreadEnds
    \/ SessionQueryBegin
    \/ QueryGet
    \/ QueryEmpty
    \/ QueryPutBack
    \/ QueryReturn

SpecSession == SessionInit /\ [][SessionNext]_vars

(* --------------------- the client specification ------------------------ *)

Init ==
    /\ encIn = <<>>
    /\ encOut = NoOut
    /\ encMode = "none"
    /\ ClientInit
    /\ TermInit
    /\ SlogInit

Next ==
    \/ Connect
    \/ Disconnect
    \/ ListenerOpen
    \/ LineArrives
    \/ LineArrivesUnread
    \/ ListenerCheckStop
    \/ ListenerHandleLine
    \/ ListenerStreamEnds
    \/ SendUntilBellCall
    \/ SendUntilBellSend
    \/ SendUntilBellDecode
    \/ SendUntilBellProbe
    \/ SendUntilBellFinally
    \/ SendUntilBellReturn
    \/ ValidateCommandReturn
    \/ SendAndListenCall
    \/ SendAndListenSend
    \/ SendAndListenFinally
    \/ SendAndListenReturn
    \/ SendCharsBatchedCall
    \/ SendCharsBatchedSend
    \/ SendCharsBatchedFinally
    \/ SendCharsBatchedReturn
    \/ SendCommandBatchedCall
    \/ SendCommandBatchedSend
    \/ SendCommandBatchedFinally
    \/ SendCommandBatchedReturn

Spec == Init /\ [][Next]_vars

(* ------------------- claims about the encoders ------------------------- *)

IsTxt(b) == "txt" \in DOMAIN b

HasBelt(belts, b) == \E k \in 1..Len(belts) : belts[k] = b

HasSymbol(syms, sym) == \E k \in 1..Len(syms) : syms[k] = sym

\* a symbol of one character whose code point lies in 32..126
PrintableSym(char) == Len(char) = 1 /\ 32 <= char[1] /\ char[1] <= 126

\* C7: no encoder, batched or unbatched, ever produces ControlKey('d'),
\* whatever the input; a ctrl-D symbol yields no keystroke event.
C7_NeverCtrlD == ~HasBelt(encOut.belts, Ctl(<<100>>))

\* a ctrl-D between two printable symbols has been encoded and left no event
C7_Witness ==
    /\ encIn = << <<97>>, <<4>>, <<13>> >>
    /\ encMode = "unbatched"
    /\ encOut.belts = << Txt(<< <<97>> >>), Ret >>

\* the fixed mapping table for the symbols that are not printable
ClaimedMapping(char) ==
    IF char = ARROW_UP THEN <<Aro("u")>>
    ELSE IF char = ARROW_DOWN THEN <<Aro("d")>>
    ELSE IF char = ARROW_LEFT THEN <<Aro("l")>>
    ELSE IF char = ARROW_RIGHT THEN <<Aro("r")>>
    ELSE IF char = <<9>> THEN <<Ctl(<<105>>)>>
    ELSE IF char = <<13>> THEN <<Ret>>
    ELSE IF char = <<8>> \/ char = <<127>> THEN <<Bac>>
    ELSE IF Len(char) = 1 /\ char[1] \in (1..26) \ {4} THEN <<Ctl(<<96 + char[1]>>)>>
    ELSE <<>>

\* C8: for every single symbol that is not printable, the unbatched and the
\* batched encoder both produce exactly the event of the fixed mapping table
\* (tab -> ctl-i, CR -> ret, backspace/delete -> bac, other control codes
\* 1..26 except 4 -> ctl-letter, arrows -> aro, anything else -> no event).
C8_SameFixedMapping ==
    (Len(encIn) = 1 /\ encMode \in {"unbatched", "batched"} /\ ~PrintableSym(encIn[1]))
        => encOut.belts = ClaimedMapping(encIn[1])

\* C9: in batched mode a Text run holds only symbols with a code point in
\* 32..126, and every such symbol of the input is in a Text run.
C9_TextRunsArePrintable ==
    (encMode \in {"batched", "string"} /\ ~encOut.raised) =>
        /\ \A k \in 1..Len(encOut.belts) :
             IsTxt(encOut.belts[k]) =>
                \A j \in 1..Len(encOut.belts[k].txt) :
                    PrintableSym(encOut.belts[k].txt[j])
        /\ encMode = "batched" =>
             \A k \in 1..Len(encIn) :
                PrintableSym(encIn[k]) =>
                    \E b \in 1..Len(encOut.belts) :
                        /\ IsTxt(encOut.belts[b])
                        /\ HasSymbol(encOut.belts[b].txt, encIn[k])

\* the batched output as the claim describes it: every maximal run of
\* printable symbols becomes one Text event, emitted before the event of the
\* symbol that ends the run
RECURSIVE ClaimedBatchedLoop(_, _, _, _)
ClaimedBatchedLoop(syms, k, out, run) ==
    LET flushed == IF run # <<>> THEN Append(out, Txt(run)) ELSE out IN
    IF k > Len(syms) THEN flushed
    ELSE IF PrintableSym(syms[k])
         THEN ClaimedBatchedLoop(syms, k + 1, out, Append(run, syms[k]))
         ELSE ClaimedBatchedLoop(syms, k + 1, flushed \o ClaimedMapping(syms[k]), <<>>)

\* the unbatched output as the claim describes it: one single-character Text
\* event per printable symbol
RECURSIVE ClaimedUnbatchedLoop(_, _, _)
ClaimedUnbatchedLoop(syms, k, out) ==
    IF k > Len(syms) THEN out
    ELSE IF PrintableSym(syms[k])
         THEN ClaimedUnbatchedLoop(syms, k + 1, Append(out, Txt(<<syms[k]>>)))
         ELSE ClaimedUnbatchedLoop(syms, k + 1, out \o ClaimedMapping(syms[k]))

\* C10: batched, each maximal run of consecutive printable symbols gives
\* exactly one Text event with the run's characters in order, placed before
\* the event of the symbol that ends the run; unbatched, each printable
\* symbol gives its own single-character Text event.
C10_RunsBecomeOneText ==
    /\ (encMode = "batched" /\ ~encOut.raised)
          => encOut.belts = ClaimedBatchedLoop(encIn, 1, <<>>, <<>>)
    /\ (encMode = "unbatched" /\ ~encOut.raised)
          => encOut.belts = ClaimedUnbatchedLoop(encIn, 1, <<>>)

(* ---------------- claims about the capture operations ------------------ *)

Connected == cookies = "set" /\ channel_id = "set"

HasEvent(evs, ev) == \E k \in 1..Len(evs) : evs[k] = ev

\* every posted keystroke is the belt of its symbol, and the posts follow the
\* input order one symbol at a time
SentInOrder ==
    \A k \in 1..Len(sent) :
        /\ sent[k].index < Len(chars)
        /\ sent[k].index <= i
        /\ sent[k].belt = SendCharacterBelt(chars[sent[k].index + 1])[1]
        /\ k > 1 => sent[k - 1].index < sent[k].index

\* C1: send_until_bell posts the symbols one at a time in input order; when
\* the replay after symbol i is the first to report a bell, no symbol of a
\* greater index is ever posted and the result has chars_accepted = i and
\* bell_position = i.
C1_BellStopsAtIndex ==
    op = SEND_UNTIL_BELL =>
        /\ SentInOrder
        /\ bell_at # -1 =>
              /\ \A k \in 1..Len(sent) : sent[k].index <= bell_at
              /\ pc = "done" => /\ result.chars_accepted = bell_at
                                /\ result.bell_position = bell_at

\* a probe of the longest input whose last replay saw the bell has returned
C1_Witness ==
    /\ op = SEND_UNTIL_BELL
    /\ pc = "done"
    /\ chars = [k \in 1..MaxChars |-> <<97>>]
    /\ bell_at = MaxChars - 1
    /\ Len(sent) = MaxChars
    /\ result.chars_accepted = MaxChars - 1
    /\ result.chars_rejected = << <<97>> >>

\* C2: on a connected session, when no send fails and no probe step sees a
\* bell, the result has chars_accepted = len(chars) and bell_position = -1
\* (for the empty input: 0 and -1, whatever the buffer holds).
C2_NoBellAcceptsAll ==
    (op = SEND_UNTIL_BELL /\ pc = "done" /\ Connected /\ ~send_failed /\ bell_at = -1)
        => /\ result.chars_accepted = Len(chars)
           /\ result.bell_position = -1

\* a two-symbol probe went through with output in the buffer and no bell
C2_Witness ==
    /\ op = SEND_UNTIL_BELL
    /\ pc = "done"
    /\ Connected
    /\ chars = << <<97>>, <<97>> >>
    /\ Len(sent) = 2
    /\ events = <<EvPut>>
    /\ bell_at = -1
    /\ result.chars_accepted = 2
    /\ result.full_output = <<57>>

\* C3: bell_position is -1 in every send_until_bell result for which no probe
\* step saw a bell (send failure and not-connected result included), and a
\* non-negative bell_position is the index of a symbol after which a bell was
\* seen.
C3_BellPositionOnlyOnBell ==
    (op = SEND_UNTIL_BELL /\ pc = "done")
        => /\ bell_at = -1 => result.bell_position = -1
           /\ result.bell_position >= 0 => bell_at = result.bell_position

\* C4: in every send_until_bell result, 0 <= chars_accepted <= len(input) and
\* chars_rejected is the suffix of the input that starts at chars_accepted.
C4_RejectedIsSuffix ==
    (op = SEND_UNTIL_BELL /\ pc = "done")
        => /\ result.input_sequence = chars
           /\ 0 <= result.chars_accepted
           /\ result.chars_accepted <= Len(chars)
           /\ result.chars_rejected =
                 SubSeq(chars, result.chars_accepted + 1, Len(chars))

\* a probe has returned with part of its input accepted and the rest rejected
C4_Witness ==
    /\ op = SEND_UNTIL_BELL
    /\ pc = "done"
    /\ Connected
    /\ Len(chars) = MaxChars
    /\ result.chars_accepted = 1
    /\ result.chars_rejected = SubSeq(chars, 2, MaxChars)

\* C5: an event that arrives on the stream after the probe loop has exited,
\* during the post-sequence wait and so before the final decode, is in the
\* buffer that the final snapshot decodes (stated for the runs in which the
\* listener is through with every line it was handed).
C5_LateEventsInSnapshot ==
    (op = SEND_UNTIL_BELL /\ pc = "done" /\ lpc \in {"waiting", "exited"})
        => \A k \in 1..Len(late) : HasEvent(events, late[k])

\* C6: without cookies or without a channel id, send_until_bell and
\* send_and_listen return their sentinel result, start no listener, post no
\* keystroke and do not raise.
C6_NotConnectedSentinel ==
    (op \notin {"none", VALIDATE_COMMAND} /\ (cookies # "set" \/ channel_id # "set"))
        => /\ pc = "done"
           /\ lpc = "none"
           /\ sent = <<>>
           /\ events = <<>>
           /\ result.input_sequence = chars
           /\ op = SEND_UNTIL_BELL => /\ result.chars_accepted = 0
                                      /\ result.chars_rejected = chars
           /\ op = SEND_AND_LISTEN => /\ result.chars_sent = 0
                                      /\ result.terminal_events = <<>>

\* send_and_listen was called with a channel id but an empty cookie jar
C6_Witness ==
    /\ op = SEND_AND_LISTEN
    /\ pc = "done"
    /\ cookies = "empty"
    /\ channel_id = "set"
    /\ Len(chars) = 2
    /\ result.chars_sent = 0
    /\ lpc = "none"

(* ------------------- claims about TerminalBuffer ----------------------- *)

Clamp(v, lo, hi) == IF v < lo THEN lo ELSE IF v > hi THEN hi ELSE v

\* the cells of two screens agree wherever Keep(r, c) holds (1-based)
SameCellsWhere(before, after, Keep(_, _)) ==
    /\ Len(after) = Len(before)
    /\ \A r \in 1..Len(before) :
          /\ Len(after[r]) = Len(before[r])
          /\ \A c \in 1..Len(before[r]) : Keep(r, c) => after[r][c] = before[r][c]

\* C14: after every TerminalBuffer operation 0 <= cursor_x < width and
\* 0 <= cursor_y < height.
C14_CursorInsideScreen ==
    /\ 0 <= term.cursor_x /\ term.cursor_x < term.width
    /\ 0 <= term.cursor_y /\ term.cursor_y < term.height

\* C14 as amended: 0 <= cursor_x <= width and 0 <= cursor_y < height after
\* every operation; cursor_x becomes width only by write_text writing into
\* the last column, and every cursor-setting operation leaves it below width.
C14_CursorInsideOrAtRightEdge ==
    /\ 0 <= term.cursor_x /\ term.cursor_x <= term.width
    /\ 0 <= term.cursor_y /\ term.cursor_y < term.height
    /\ (term.cursor_x = term.width /\ tprev.cursor_x < tprev.width)
          => /\ tcall.name = "write_text"
             /\ term.screen[term.cursor_y + 1][term.width] = tcall.text[term.width - tprev.cursor_x]
    /\ tcall.name \in {"newline", "set_cursor_col", "set_cursor_pos", "clear_screen"}
          => term.cursor_x < term.width

\* write_text has filled a row to its last column
C14_Witness ==
    /\ tcall.name = "write_text"
    /\ Len(tcall.text) = term.width + 1
    /\ tprev.cursor_x = 0
    /\ term.cursor_x = term.width
    /\ term.screen[term.cursor_y + 1] = [k \in 1..term.width |-> 98]

\* C15: height never decreases and no row is removed or shifted; the row list
\* changes in length only by newline appending one blank row at the bottom,
\* and the rows above keep their index and content.
C15_RowsOnlyAppended ==
    /\ term.height >= tprev.height
    /\ Len(term.screen) = term.height
    /\ term.height # tprev.height
          => /\ tcall.name = "newline"
             /\ term.height = tprev.height + 1
             /\ term.screen = Append(tprev.screen, BlankRow(term.width))
    /\ tcall.name = "newline" => SubSeq(term.screen, 1, tprev.height) = tprev.screen

\* a newline on the last row grew the screen and the text of row 0 is still
\* in row 0
C15_Witness ==
    /\ tcall.name = "newline"
    /\ tprev.cursor_y = tprev.height - 1
    /\ term.height = TermHeight + 1
    /\ term.screen[1][1] = 97
    /\ term.screen[term.height] = BlankRow(term.width)

C17_NewlineGrowsByOne ==
    tcall.name = "newline" =>
        /\ term.cursor_x = 0
        /\ term.cursor_y = tprev.cursor_y + 1
        /\ term.screen[1] = tprev.screen[1]
        /\ term.bell_occurred = tprev.bell_occurred
        /\ IF tprev.cursor_y = tprev.height - 1
           THEN /\ term.height = tprev.height + 1
                /\ term.screen = Append(tprev.screen, BlankRow(term.width))
                /\ term.cursor_y = term.height - 1
           ELSE /\ term.height = tprev.height
                /\ term.screen = tprev.screen

\* two newlines on the last row: two rows added, cursor on the new last row
C17_Witness ==
    /\ tcall.name = "newline"
    /\ tprev.cursor_y = tprev.height - 1
    /\ tprev.height = TermHeight + 1
    /\ term.height = TermHeight + 2
    /\ term.cursor_y = TermHeight + 1
    /\ term.cursor_x = 0

\* C18: clear_screen blanks every row, puts the cursor at (0,0) and leaves
\* height at its current, possibly grown, value.
C18_ClearKeepsHeight ==
    tcall.name = "clear_screen" =>
        /\ term.height = tprev.height
        /\ Len(term.screen) = tprev.height
        /\ \A r \in 1..term.height : term.screen[r] = BlankRow(term.width)
        /\ term.cursor_x = 0
        /\ term.cursor_y = 0
        /\ term.bell_occurred = tprev.bell_occurred

\* a grown screen with text on it was cleared
C18_Witness ==
    /\ tcall.name = "clear_screen"
    /\ tprev.height = TermHeight + 1
    /\ \E r \in 1..tprev.height : tprev.screen[r] # BlankRow(tprev.width)
    /\ tprev.cursor_y > 0
    /\ term.height = TermHeight + 1

\* C19: clear_line blanks exactly the cells from cursor_x to width-1 of the
\* current row; the cursor, the cells left of it, the other rows, height and
\* the bell flag are unchanged.
C19_ClearLineFromCursor ==
    tcall.name = "clear_line" =>
        /\ term.cursor_x = tprev.cursor_x
        /\ term.cursor_y = tprev.cursor_y
        /\ term.height = tprev.height
        /\ term.bell_occurred = tprev.bell_occurred
        /\ SameCellsWhere(tprev.screen, term.screen,
                          LAMBDA r, c : r # tprev.cursor_y + 1 \/ c <= tprev.cursor_x)
        /\ \A c \in 1..term.width :
              c > tprev.cursor_x => term.screen[tprev.cursor_y + 1][c] = 32

\* a row holding text on both sides of the cursor was wiped from the cursor on
C19_Witness ==
    /\ tcall.name = "clear_line"
    /\ tprev.cursor_x = 1
    /\ tprev.screen[tprev.cursor_y + 1][1] # 32
    /\ tprev.screen[tprev.cursor_y + 1][2] # 32
    /\ term.screen[term.cursor_y + 1][1] = tprev.screen[tprev.cursor_y + 1][1]
    /\ term.screen[term.cursor_y + 1][2] = 32

\* C20: set_cursor_col(col) sets cursor_x to col clamped into [0, width-1]
\* and keeps cursor_y; set_cursor_pos(x, y) clamps x into [0, width-1] and y
\* into [0, height-1] independently; neither changes a cell, for negative
\* and over-range arguments too.
C20_CursorSettersClamp ==
    /\ tcall.name = "set_cursor_col" =>
          /\ term.cursor_x = Clamp(tcall.x, 0, tprev.width - 1)
          /\ term.cursor_y = tprev.cursor_y
          /\ term.screen = tprev.screen
          /\ term.height = tprev.height
          /\ term.bell_occurred = tprev.bell_occurred
    /\ tcall.name = "set_cursor_pos" =>
          /\ term.cursor_x = Clamp(tcall.x, 0, tprev.width - 1)
          /\ term.cursor_y = Clamp(tcall.y, 0, tprev.height - 1)
          /\ term.screen = tprev.screen
          /\ term.height = tprev.height
          /\ term.bell_occurred = tprev.bell_occurred

\* set_cursor_pos with a negative x and a y beyond the grown screen
C20_Witness ==
    /\ tcall.name = "set_cursor_pos"
    /\ tcall.x = -1
    /\ tcall.y > tprev.height
    /\ tprev.height = TermHeight + 1
    /\ tprev.cursor_x > 0
    /\ term.cursor_x = 0
    /\ term.cursor_y = TermHeight

(* ---------------- claims about the slog correlator --------------------- *)

\* the ids the running/last query gave a verdict
ExaminedAs(verdict) ==
    { examined[k].id : k \in { j \in 1..Len(examined) : examined[j].verdict = verdict } }

QueryDone == qpc = "idle" /\ nqueries > 0

InWindow(ts) == start_time <= ts /\ ts <= end_time

\* C11: _get_correlated_slog_messages(start, end) examines every message
\* that is in the mailbox when it runs: one with start <= timestamp <= end
\* (both bounds included) is returned and removed, one with timestamp > end is
\* put back, and one with timestamp < start is removed and never returned.
C11_QuerySortsTheMailbox ==
    /\ QueryDone =>
          /\ at_begin \subseteq Ids(examined)
          /\ Len(correlated_messages) = Cardinality(ExaminedAs("returned"))
          /\ \A id \in at_begin :
                LET ts == msglog[id].timestamp IN
                /\ InWindow(ts) => /\ id \in ExaminedAs("returned")
                                   /\ id \notin Ids(slog_queue)
                /\ ts > end_time => /\ id \in Ids(slog_queue)
                                    /\ id \notin ExaminedAs("returned")
                /\ ts < start_time => /\ id \notin Ids(slog_queue)
                                      /\ id \notin ExaminedAs("returned")
    /\ \A id \in DOMAIN msglog : msglog[id].dropped => msglog[id].returned = 0

\* one query met all three cases: a message stamped exactly end returned, a
\* newer one back in the mailbox, an older one gone
C11_Witness ==
    /\ QueryDone
    /\ \E a \in at_begin, b \in at_begin, c \in at_begin :
          /\ msglog[a].timestamp = end_time
          /\ a \in ExaminedAs("returned")
          /\ correlated_messages = << <<109>> >>
          /\ msglog[b].timestamp > end_time
          /\ b \in Ids(slog_queue)
          /\ msglog[c].timestamp < start_time
          /\ c \notin Ids(slog_queue)
          /\ msglog[c].dropped

\* C12: across any sequence of queries interleaved with listener arrivals
\* no log message is returned by more than one query, and none is returned
\* twice within one query.
C12_ReturnedAtMostOnce ==
    /\ \A id \in DOMAIN msglog : msglog[id].returned <= 1
    /\ \A j \in 1..Len(examined), k \in 1..Len(examined) :
          (j # k /\ examined[j].verdict = "returned") => examined[j].id # examined[k].id

\* a later query whose window contains the timestamp of a message that an
\* earlier query returned has come back without it
C12_Witness ==
    /\ QueryDone
    /\ \E id \in DOMAIN msglog :
          /\ msglog[id].returned = 1
          /\ msglog[id].by < nqueries
          /\ InWindow(msglog[id].timestamp)
          /\ id \notin Ids(examined)

\* C13: a message whose timestamp is greater than t1 when query(t0, t1)
\* runs stays in the mailbox, and the first later query whose window contains
\* its timestamp returns it.
C13_DeferredReachesCoveringQuery ==
    /\ QueryDone => ExaminedAs("deferred") \subseteq Ids(slog_queue)
    /\ \A id \in DOMAIN msglog : msglog[id].deferred => ~msglog[id].missed

\* C13 as amended: a message put back by a query stays in the mailbox until a
\* later query examines it and either returns it (its window contains the
\* timestamp) or drops it (its window starts after the timestamp); a later
\* query whose window contains the timestamp comes back without it only if a
\* query in between has dropped it.
C13_DeferredStaysUntilReturnedOrDropped ==
    /\ QueryDone => ExaminedAs("deferred") \subseteq Ids(slog_queue)
    /\ \A id \in DOMAIN msglog :
          /\ (msglog[id].deferred /\ msglog[id].returned = 0 /\ ~msglog[id].dropped)
                => id \in Ids(slog_queue) \cup Ids(temp_messages)
          /\ msglog[id].missed => msglog[id].dropped
          /\ msglog[id].dropped => msglog[id].returned = 0

\* a message that one query put back was returned by a later query
C13_Witness ==
    /\ QueryDone
    /\ \E id \in DOMAIN msglog :
          /\ msglog[id].deferred
          /\ msglog[id].returned = 1
          /\ msglog[id].by = nqueries
          /\ id \in ExaminedAs("returned")
          /\ msglog[id].timestamp > 0

(* ------------------ claims about get_visible_text ---------------------- *)

\* the length of a row without its trailing whitespace
RowEnd(row) ==
    CHOOSE k \in 0..Len(row) :
        /\ k = 0 \/ ~IsSpace(row[k])
        /\ \A j \in (k + 1)..Len(row) : IsSpace(row[j])

StrippedRow(row) == SubSeq(row, 1, RowEnd(row))

NonBlankRows(screen) == { r \in 1..Len(screen) : RowEnd(screen[r]) > 0 }

LeastOf(S) == CHOOSE m \in S : \A x \in S : m <= x

GreatestOf(S) == CHOOSE m \in S : \A x \in S : x <= m

\* rows first..last (1-based), stripped, with a line feed between them
RECURSIVE RowsJoined(_, _, _)
RowsJoined(screen, first, last) ==
    IF first > last THEN <<>>
    ELSE IF first = last THEN StrippedRow(screen[first])
    ELSE StrippedRow(screen[first]) \o <<10>> \o RowsJoined(screen, first + 1, last)

\* a text cut at its line feeds
RECURSIVE SplitLines(_, _)
SplitLines(text, current) ==
    IF text = <<>> THEN <<current>>
    ELSE IF Head(text) = 10 THEN <<current>> \o SplitLines(Tail(text), <<>>)
    ELSE SplitLines(Tail(text), Append(current, Head(text)))

\* C21: for every reachable screen, get_visible_text is the rows in order,
\* each without its trailing whitespace, with only the trailing blank rows
\* removed, joined by line feeds: line k of the text is row k of the screen.
C21_VisibleTextIsRowsFromTop ==
    get_visible_text(term) =
        IF NonBlankRows(term.screen) = {} THEN <<>>
        ELSE RowsJoined(term.screen, 1, GreatestOf(NonBlankRows(term.screen)))

\* C21 as amended: get_visible_text is the rows from the first non-blank row
\* to the last non-blank row, each without its trailing whitespace, joined by
\* line feeds: blank rows above the first text are removed as the trailing
\* ones are, so line k of the text is row first+k of the screen.
C21_VisibleTextIsRowsFromFirstText ==
    get_visible_text(term) =
        IF NonBlankRows(term.screen) = {} THEN <<>>
        ELSE RowsJoined(term.screen, LeastOf(NonBlankRows(term.screen)),
                        GreatestOf(NonBlankRows(term.screen)))

\* a blank row above the text and one below it, and a trailing space in the
\* text row: the text alone is returned
C21_Witness ==
    /\ Len(term.screen) = TermHeight + 1
    /\ NonBlankRows(term.screen) = {2}
    /\ term.screen[2][1] = 97
    /\ term.screen[2][2] = 32
    /\ get_visible_text(term) = <<97>>

C23_BellIsSticky ==
    /\ tcall.name = "record_bell" => term = [tprev EXCEPT !.bell_occurred = TRUE]
    /\ record_bell(record_bell(term)) = record_bell(term)
    /\ has_bell(record_bell(term))
    /\ tprev.bell_occurred => term.bell_occurred
    /\ LET d == Replay(<< [json |-> [mor |-> << [put |-> << <<57>> >>],
                                                 [bel |-> "None"] >>]] >>)
       IN /\ ~d.exc
          /\ get_visible_text(d.t) = <<57>>
          /\ has_bell(d.t)

\* the flag was set, set again, and survived a clear_screen
C23_Witness ==
    /\ tcall.name = "clear_screen"
    /\ tprev.bell_occurred
    /\ term.bell_occurred
    /\ nops >= 3
    /\ term.height > TermHeight \/ term.cursor_x = 0

RECURSIVE Leaves(_)
RECURSIVE LeavesOfList(_)
Leaves(blit) == IF HasKey(blit, "mor") THEN LeavesOfList(blit.mor) ELSE <<blit>>

LeavesOfList(blits) ==
    IF blits = <<>> THEN <<>> ELSE Leaves(Head(blits)) \o LeavesOfList(Tail(blits))

\* leaf commands decoded one after the other
RECURSIVE ApplyInOrder(_, _)
ApplyInOrder(leaves, d) ==
    IF leaves = <<>> THEN d ELSE ApplyInOrder(Tail(leaves), ProcessBlit(Head(leaves), d))

Decoded == tcall.name = "_process_blit"

BeforeDecode == [t |-> tprev, exc |-> FALSE]

AfterDecode == [t |-> term, exc |-> tcall.raised]

Recognized(blit) ==
    \E key \in {"mor", "put", "klr", "nel", "hop", "wyp", "clr", "bel"} : HasKey(blit, key)

\* the text items of the fragments of a klr record, in list order
RECURSIVE FragmentItems(_)
FragmentItems(frags) ==
    IF frags = <<>> THEN <<>>
    ELSE (IF HasKey(Head(frags), "text") THEN Head(frags).text ELSE <<>>)
         \o FragmentItems(Tail(frags))

\* C24: decoding a mor record applies its sub-commands recursively and left
\* to right: the screen ends in the state that decoding the flattened
\* left-to-right sequence of its leaf commands gives.
C24_MorIsItsLeavesInOrder ==
    Decoded => AfterDecode = ApplyInOrder(Leaves(tcall.blit), BeforeDecode)

\* a mor record holding another mor record was decoded: text, a line break,
\* more text and the bell
C24_Witness ==
    /\ Decoded
    /\ HasKey(tcall.blit, "mor")
    /\ \E k \in 1..Len(tcall.blit.mor) : HasKey(tcall.blit.mor[k], "mor")
    /\ Len(Leaves(tcall.blit)) > Len(tcall.blit.mor)
    /\ tprev = NewTerminal(TermWidth, TermHeight)
    /\ get_visible_text(term) = <<57, 10, 97, 98>>
    /\ term.bell_occurred

\* C25: decoding a klr record writes the text of its fragments in list order
\* and ignores the styling: the screen ends as after a put record carrying
\* the concatenation of the fragments' text; a fragment without a text field
\* writes nothing.
C25_KlrIsPutOfItsText ==
    (Decoded /\ HasKey(tcall.blit, "klr") /\ ~HasKey(tcall.blit, "mor")
             /\ ~HasKey(tcall.blit, "put")) =>
        AfterDecode = ProcessBlit([put |-> FragmentItems(tcall.blit.klr)], BeforeDecode)

\* a klr record with two text fragments around one without text wrote "abc"
C25_Witness ==
    /\ Decoded
    /\ HasKey(tcall.blit, "klr")
    /\ \E k \in 1..Len(tcall.blit.klr) : ~HasKey(tcall.blit.klr[k], "text")
    /\ tprev.cursor_x = 0
    /\ term.screen[term.cursor_y + 1] = <<97, 98, 99>>
    /\ term.cursor_x = 3

\* C26: a wire record none of whose keys is a command key leaves the screen
\* unchanged and raises no error; the commands before and after it in the
\* stream are still applied.
C26_UnknownRecordIsNoOp ==
    Decoded =>
        /\ ~Recognized(tcall.blit) => (term = tprev /\ ~tcall.raised)
        /\ AfterDecode = ApplyInOrder(SelectSeq(Leaves(tcall.blit), Recognized),
                                      BeforeDecode)

\* an unknown record between two writes inside one stream of commands: both
\* writes are on the screen
C26_Witness ==
    /\ Decoded
    /\ \E k \in 2..(Len(Leaves(tcall.blit)) - 1) :
          /\ ~Recognized(Leaves(tcall.blit)[k])
          /\ HasKey(Leaves(tcall.blit)[k - 1], "nel")
          /\ HasKey(Leaves(tcall.blit)[k + 1], "put")
    /\ ~tcall.raised
    /\ term.cursor_y = tprev.cursor_y + 1
    /\ term.screen[term.cursor_y + 1][1] = 97

(* ------------- claims about the listener and the senders --------------- *)

StreamOps == {SEND_AND_LISTEN, SEND_CHARS_BATCHED, SEND_COMMAND_BATCHED}

IsPrefix(a, b) == Len(a) <= Len(b) /\ SubSeq(b, 1, Len(a)) = a

\* C28: during a capture a malformed or undecodable line is skipped without
\* ending the capture: every well-formed event that arrives after it within
\* the window is still appended, and the buffer holds the decoded events in
\* arrival order (stated for the moments at which the listener holds no line
\* and the window is open).
C28_BadLinesAreSkipped ==
    /\ IsPrefix(events, arrived)
    /\ (op # "none" /\ ~stop_event /\ lpc \in {"waiting", "crashed", "exited"})
          => events = arrived

\* C29: when a transmission fails partway through a send operation the
\* operation returns normally and chars_sent is the number of symbols
\* transmitted before the failure, fewer than requested, for send_and_listen
\* and the batched senders alike; nothing is transmitted after the failure.
C29_SentCountAfterFailure ==
    (op \in StreamOps /\ send_failed) =>
        /\ pc # "raised"
        /\ \A k \in 1..Len(sent) : sent[k].index < i
        /\ pc = "done" =>
              /\ result.chars_sent < Len(chars)
              /\ op = SEND_AND_LISTEN => result.chars_sent = i

\* C30: every capture operation (send_and_listen, send_chars_batched,
\* send_command_batched) waits a fixed grace period after its listen window
\* has closed and before it returns, so an event in flight when the window
\* closes is in the returned terminal_events (stated for the runs in which
\* the listener is through with every line it was handed).
C30_InFlightEventsAreReturned ==
    (op \in StreamOps /\ pc = "done" /\ Connected /\ lpc \in {"waiting", "exited"})
        => \A k \in 1..Len(late) : HasEvent(events, late[k])

(* ------------- claims about failures and results of captures ----------- *)

\* C31: send_and_listen and send_until_bell return a result value on every
\* path (send failure, listener failure, malformed wire records in the
\* buffer): no call of either ends by propagating an exception.
C31_AlwaysReturnsAValue ==
    op \in {SEND_AND_LISTEN, SEND_UNTIL_BELL} => pc # "raised"

(* ---------------- claims about the shape of the screen ----------------- *)

\* C39: in every reachable TerminalBuffer state the screen has exactly
\* height rows and every row has exactly width characters; a write or a
\* clear leaves the number of rows and the length of every row as they were.
C39_ScreenIsHeightByWidth ==
    /\ Len(term.screen) = term.height
    /\ term.width = TermWidth
    /\ \A r \in 1..Len(term.screen) : Len(term.screen[r]) = term.width
    /\ tcall.name \in {"write_text", "clear_line", "clear_screen"}
          => Len(term.screen) = Len(tprev.screen)

\* a text longer than the row was written into the bottom row of a screen
\* that has grown, with text already in that row
C39_Witness ==
    /\ tcall.name = "write_text"
    /\ Len(tcall.text) >= 2
    /\ term.height > TermHeight
    /\ tprev.cursor_y = term.height - 1
    /\ tprev.cursor_x = term.width - 1
    /\ term.cursor_x = term.width
    /\ term.screen # tprev.screen

(* ---------------- claims about the decode passes ----------------------- *)

\* the events the running (or last) decode pass of send_until_bell has taken
PassView == SubSeq(events, 1, seen)

\* C33: while the listener keeps appending, a decode pass of send_until_bell
\* has processed exactly a prefix of the buffer, itself a prefix of the
\* events in arrival order, on a TerminalBuffer that started fresh: its
\* screen is the replay of that prefix and of nothing else, a bell verdict
\* is the bell of that prefix and a no-bell verdict its absence.
C33_DecodePassReadsAPrefix ==
    op = SEND_UNTIL_BELL =>
        /\ seen <= Len(events)
        /\ IsPrefix(PassView, arrived)
        /\ terminal = Replay(PassView).t
        /\ bell_at # -1 => has_bell(Replay(PassView).t)
        /\ (pc = "send" /\ i > 0) => /\ ~has_bell(Replay(PassView).t)
                                     /\ ~Replay(PassView).exc

\* the second decode pass has taken the first event, written "9" on its
\* own screen, and the listener has appended another event meanwhile
C33_Witness ==
    /\ op = SEND_UNTIL_BELL
    /\ pc = "probe"
    /\ i = 1
    /\ seen = 1
    /\ events = <<EvPut, EvPut>>
    /\ lpc = "waiting"
    /\ terminal.screen[1][1] = 57
    /\ terminal.screen[1][2] = 32

\* C32: in the BellResponse of a probe that saw a bell, terminal_state is the
\* visible text of the screen the bell was detected on, and full_output is
\* the visible text of the whole buffer, events captured after the bell
\* included.
C32_TerminalStateIsScreenAtBell ==
    (op = SEND_UNTIL_BELL /\ pc = "done" /\ Connected /\ bell_at # -1) =>
        /\ result.terminal_state = get_visible_text(terminal)
        /\ \E n \in seen..Len(events) :
              result.full_output = get_visible_text(Replay(SubSeq(events, 1, n)).t)

(* ------------------- claims about cancellation ------------------------- *)

CaptureOps ==
    {SEND_UNTIL_BELL, SEND_AND_LISTEN, SEND_CHARS_BATCHED, SEND_COMMAND_BATCHED}

\* C35: a capture operation that started its listener has set stop_event
\* when it returns (or raises), after a send failure too; the flag is never
\* cleared; once it is set the only event still appended is the one the
\* listener was handling (its stop check had passed), no further line gets
\* past the check, and the listener exits at the next line it receives.
C35_CancellationStopsTheListener ==
    [][ /\ (op' \in CaptureOps /\ Connected /\ pc' \in {"done", "raised"} /\ lpc' # "none")
              => stop_event'
        /\ stop_event => stop_event'
        /\ (stop_event /\ events' # events)
              => /\ lpc = "handling"
                 /\ WellFormed(lline)
                 /\ events' = Append(events, lline.value)
                 /\ lpc' # "handling"
        /\ (stop_event /\ lpc' = "handling") => lpc = "handling"
        /\ (stop_event /\ lpc = "checking" /\ lpc' # lpc) => lpc' = "exited"
      ]_vars

\* a batched send failed, the flag is set, and the listener holds an event
\* whose stop check passed before that
C35_Witness ==
    /\ op = SEND_CHARS_BATCHED
    /\ send_failed
    /\ pc = "grace"
    /\ stop_event
    /\ lpc = "handling"
    /\ lline = DataLine(EvPut)
    /\ events = <<EvPut>>

(* ------------- claims about symbols that are not transmitted ----------- *)

\* the symbols the claim lists as dropped: code 4, code 0, codes 27..31 and
\* every code point above 126
ClaimedDropped(char) ==
    /\ Len(char) = 1
    /\ \/ char[1] \in {0, 4}
       \/ char[1] \in 27..31
       \/ char[1] > 126

\* the same without code 127
DroppedByEncoder(char) == ClaimedDropped(char) /\ char[1] # 127

Posted(k) == \E n \in 1..Len(sent) : sent[n].index = k - 1

\* symbol k of the input was not posted, and once the loop is past it
\* chars_sent (send_and_listen) or chars_accepted (send_until_bell, which
\* gets past it only when its decode pass saw no bell) counts it
SkippedButCounted(k) ==
    /\ ~Posted(k)
    /\ (op = SEND_AND_LISTEN /\ i >= k) => chars_sent >= k
    /\ (op = SEND_AND_LISTEN /\ i >= k /\ pc = "done") => result.chars_sent >= k
    /\ (op = SEND_UNTIL_BELL /\ i >= k) => chars_accepted >= k
    /\ (op = SEND_UNTIL_BELL /\ i >= k /\ pc = "done") => result.chars_accepted >= k

\* C37 as claimed: in send_and_listen and send_until_bell a symbol of code 4,
\* code 0, codes 27..31 or a code point above 126 is never transmitted and
\* is still counted as sent, and as accepted when no bell is seen.
C37_ListedSymbolsDroppedButCounted ==
    (op \in {SEND_AND_LISTEN, SEND_UNTIL_BELL} /\ Connected) =>
        \A k \in 1..Len(chars) : ClaimedDropped(chars[k]) => SkippedButCounted(k)

\* codes of the symbols _send_character returns on without posting
DroppedCodes == {0, 4} \cup 27..31 \cup 128..130 \cup {200, 8364}

\* C37 amended: code 127 is posted as a backspace; the symbols of code 4,
\* code 0, codes 27..31 and code points above 127 are never transmitted and
\* are still counted as sent, and as accepted when no bell is seen.
C37_DroppedSymbolsAreCounted ==
    /\ \A c \in DroppedCodes :
          /\ DroppedByEncoder(<<c>>)
          /\ ~SendCharacterRaises(<<c>>)
          /\ SendCharacterBelt(<<c>>) = <<>>
    /\ SendCharacterBelt(<<127>>) = <<Bac>>
    /\ (op \in {SEND_AND_LISTEN, SEND_UNTIL_BELL} /\ Connected) =>
          \A k \in 1..Len(chars) :
              /\ DroppedByEncoder(chars[k]) => SkippedButCounted(k)
              /\ (chars[k] = <<127>> /\ Posted(k)) =>
                    \E n \in 1..Len(sent) : sent[n] = [index |-> k - 1, belt |-> Bac]

\* send_and_listen went through ctrl-D and 'a': one keystroke posted, two
\* symbols counted
C37_Witness ==
    /\ op = SEND_AND_LISTEN
    /\ pc = "done"
    /\ Connected
    /\ chars = << <<4>>, <<97>> >>
    /\ sent = << [index |-> 1, belt |-> Txt(<< <<97>> >>)] >>
    /\ result.chars_sent = 2

(* ------------------ claims about validate_command ---------------------- *)

\* C40: for every command and every outcome of the probe, the dict that
\* validate_command returns has is_valid true exactly when chars_accepted is
\* the command's length, error_position None exactly when is_valid is true,
\* and accepted_portion followed by rejected_portion equal to the command.
C40_ValidationIsConsistent ==
    op = VALIDATE_COMMAND =>
        /\ result.total_chars = Len(Join(chars))
        /\ result.is_valid <=> (result.chars_accepted = Len(Join(chars)))
        /\ (result.error_position = None) <=> result.is_valid
        /\ result.accepted_portion \o result.rejected_portion = Join(chars)

\* a two-character command was rejected at its second character
C40_Witness ==
    /\ op = VALIDATE_COMMAND
    /\ Connected
    /\ chars = << <<97>>, <<97>> >>
    /\ ~result.is_valid
    /\ result.accepted_portion = <<97>>
    /\ result.rejected_portion = <<97>>
    /\ result.error_position = [int |-> 1]

(* ------------- claims about batched against unbatched ------------------ *)

\* a belt sequence with every txt run cut into one txt belt per character
RECURSIVE SplitRuns(_)
SplitRuns(belts) ==
    IF belts = <<>> THEN <<>>
    ELSE (IF IsTxt(Head(belts))
          THEN [k \in 1..Len(Head(belts).txt) |-> Txt(<<Head(belts).txt[k]>>)]
          ELSE <<Head(belts)>>) \o SplitRuns(Tail(belts))

\* C36: for every symbol sequence, the belts of _create_belts_from_chars,
\* with each txt run split into single-character txt belts, are exactly the
\* belts that _send_character applied symbol by symbol transmits.
C36_BatchedSplitIsUnbatched ==
    (encMode = "batched" /\ ~encOut.raised) =>
        /\ ~Unbatched(encIn).raised
        /\ SplitRuns(encOut.belts) = Unbatched(encIn).belts

(* ----------- claims about the correlator and the slog listener --------- *)

\* the timestamps of a list of message_data, in the order of the list
Stamps(messages) == [k \in 1..Len(messages) |-> messages[k].timestamp]

\* the timestamps of a list of ids, in the order of the list
StampsOf(ids) == [k \in 1..Len(ids) |-> msglog[ids[k]].timestamp]

\* no element is followed by a smaller one
Ascending(stamps) ==
    \A j \in 1..Len(stamps), k \in 1..Len(stamps) : j < k => stamps[j] <= stamps[k]

\* the ids the running/last query returned, in the order it returned them
RECURSIVE ReturnedIds(_)
ReturnedIds(exam) ==
    IF exam = <<>> THEN <<>>
    ELSE (IF Head(exam).verdict = "returned" THEN <<Head(exam).id>> ELSE <<>>)
         \o ReturnedIds(Tail(exam))

\* C34: a query drains the mailbox atomically with respect to the listener:
\* a message enqueued while a query is in progress is neither lost nor
\* duplicated, after the query the mailbox holds the retained and the newly
\* arrived messages in arrival order, and every query returns its messages
\* in arrival order.
C34_QueryIsAtomic ==
    /\ \A id \in DOMAIN msglog :
          (msglog[id].returned = 0 /\ ~msglog[id].dropped)
              => id \in Ids(slog_queue) \cup Ids(temp_messages)
    /\ Cardinality(Ids(slog_queue) \cup Ids(temp_messages))
          = Len(slog_queue) + Len(temp_messages)
    /\ qpc = "idle" => Ascending(Stamps(slog_queue))
    /\ Ascending(StampsOf(ReturnedIds(examined)))

(* ------------------------------ C38 ------------------------------------ *)

\* the slog thread of the session the client is in
CurrentSlogThread == slog_threads[Len(slog_threads)]

\* the messages on the queue or set aside by the running query that thread t
\* has enqueued
QueuedBy(t) ==
    (Ids(slog_queue) \cup Ids(temp_messages)) \cap slog_threads[t].enqueued

\* C38: a slog listener started after disconnect() has set the stop event of
\* a live listener finds the event still set; it never handles a line, has
\* enqueued nothing and has ended when it has received its first line; and
\* a query made in its session correlates no message.
C38_SecondSessionHearsNothing ==
    /\ \A t \in 1..Len(slog_threads) :
          slog_threads[t].stopped_before =>
              /\ slog_stop_event
              /\ slog_threads[t].state # "handling"
              /\ slog_threads[t].enqueued = {}
              /\ QueuedBy(t) = {}
              /\ slog_threads[t].lines <= 1
              /\ (slog_threads[t].lines = 1 => slog_threads[t].state = "exited")
    /\ (slog_threads # <<>> /\ CurrentSlogThread.stopped_before /\ qpc # "idle")
          => correlated_messages = <<>>

\* the first session has enqueued a message; in the second session the
\* listener has received one line and ended, and a query is about to return
C38_Witness ==
    /\ Len(slog_threads) = 2
    /\ slog_threads[1].enqueued # {}
    /\ slog_threads[2].stopped_before
    /\ slog_threads[2].lines = 1
    /\ slog_threads[2].state = "exited"
    /\ qpc = "putback"
    /\ at_begin # {}

====
